---- MODULE Spec2Model ----
(***************************************************************************)
(* A model of two parts of sqljoy:                                         *)
(*   - the browser client session (sqljoy/src/client.ts): the transport    *)
(*     handle, the request table, the ready barrier, HELLO, close;         *)
(*   - the tenant runtime's subtask registry (runtime subtasks.ts): the    *)
(*     registry, resumeTask, cancelRequest, contexts and timers.           *)
(* The two parts share no state; ClientSpec and RuntimeSpec run one part   *)
(* each and leave the other part's variables at their initial values.      *)
(***************************************************************************)
EXTENDS Integers, Sequences, FiniteSets, TLC

(***************************************************************************)
(* Bounds of the model.                                                    *)
(***************************************************************************)
MaxReq == 2         \* requests the application issues (HELLO comes on top)
MaxSocks == 2       \* WebSockets the client creates
MaxClock == 6       \* largest clock reading
MaxSubtasks == 2    \* subtask ids allocated in one runtime lifetime
MaxTasks == 2       \* user tasks dispatched by runTask
MaxRequestId == 2    \* request ids the host uses are 1..MaxRequestId
MaxOutbox == 2       \* messages the outbox holds before the host takes them
MaxCalls == 2        \* times one timer callback is run
MaxInbox == 2        \* slots of the inbox in one runTasks call
MaxTicks == 2        \* runTasks calls in one runtime lifetime

MinClock == 5       \* smallest clock reading (epoch milliseconds, > 0)

VARIABLES
    \* ---- client (client.ts, class SQLJoy) ----
    closed,         \* this.closed
    connecting,     \* this.connecting: a getServerUrl() promise is in flight
    connectedAt,    \* this.connectedAt
    lastId,         \* this.lastId
    sock,           \* this.sock: 0 is null, else the index of a WebSocket
    readyState,     \* readyState of every WebSocket ever created
    queries,        \* keys of this.queries
    reqs,           \* every sendCommand call, in call order, with its promise
    microtasks,     \* the promise job queue (FIFO)
    frames,         \* what sock.send() was called with, in order
    answered,       \* frames the server has answered: <<id, kind of answer>>
    firstOpen,      \* the first WebSocket that reached OPEN (0: none yet)
    preventUnload,  \* this.settings.preventUnload
    bufferedAmount, \* bufferedAmount of every WebSocket, in frames
    unloadRegistered, \* unload.ts: unloadRegistered
    listeners,      \* "beforeunload" listeners on the window
    pushes,         \* server push frames received: the guard before and after
    drain,          \* the drain() call: its argument, where it is, what it saw
    \* ---- tenant runtime ----
    SUBTASKS,           \* the registry: a set of [id, uid, kind, ctx]
    SUBTASK_ID_SEQUENCE,
    ctxs,               \* Context objects: [req, detached, forged, state]
    created,            \* every subtask ever created, by uid
    invoked,            \* calls of each subtask's handles, by uid
    TIMERS,
    ACTIVE_TIMERS,
    OUTBOX,
    cancelled,          \* R when the last step was cancelRequest(R), otherwise 0
    OUTBOX_TAIL,
    NOW,                \* date.ts: what Date.now() returns
    tick,               \* what the last runTasks call got, did and returned
    ticks,              \* runTasks calls so far
    \* ---- functions studied on their own ----
    pure                \* the function, its inputs and what it returned

uvars == <<preventUnload, bufferedAmount, unloadRegistered, listeners, pushes, drain>>
cvars == <<closed, connecting, connectedAt, lastId, sock, readyState,
           queries, reqs, microtasks, frames, answered, firstOpen, uvars>>
rvars == <<SUBTASKS, SUBTASK_ID_SEQUENCE, ctxs, created, invoked, TIMERS,
           ACTIVE_TIMERS, OUTBOX, cancelled, OUTBOX_TAIL, NOW, tick, ticks>>
vars == <<cvars, rvars, pure>>

(***************************************************************************)
(*                              CLIENT                                     *)
(***************************************************************************)
Socks == 1..MaxSocks
NoSock == 0

CONNECTING == "CONNECTING"
OPEN == "OPEN"
CLOSING == "CLOSING"
CLOSED == "CLOSED"
NotCreated == "NONE"

\* What (new Date()).getTime() may return. The wall clock is not monotonic.
Clocks == MinClock..MaxClock

\* Answers of the server: a result, an error that is not a validation error (or
\* is one whose payload is a string: both give a ServerError), and a validation
\* error with an object payload.
MsgKinds == {"result", "error", "valObj"}

\* CommandType, client.ts 37-41. sendCommand, send, ready and doSend read the
\* command only to build the frame text, so QUERY ("Q") and CALL ("C") are kept
\* as one value: a frame is a HELLO frame or a query-or-call frame.
HELLO == "H"
QUERY_OR_CALL == "QC"

\* A faulty nextId() without the "++this.lastId" branch.
nextId_elapsed(now, cAt, lId) == now - cAt
\* nextId(): client.ts 396-404. The value returned is also the new lastId.
nextId(now, cAt, lId) ==
    LET timestamp == now - cAt
    IN IF timestamp <= lId THEN lId + 1 ELSE timestamp

\* ready(), from its entry to its first await: client.ts 142-159.
ReadyEntry(isClosed, s, rs) ==
    IF isClosed THEN "threwClosed"
    ELSE IF s = NoSock THEN "connect"
    ELSE IF rs[s] \in {CLOSED, CLOSING} THEN "threwState"
    ELSE IF rs[s] = CONNECTING THEN "poll"
    ELSE "done"

\* ready(), the loop test after an await: client.ts 157-159.
\* this.sock!.readyState throws a TypeError when this.sock is null.
ReadyLoop(s, rs) ==
    IF s = NoSock THEN "threwNull"
    ELSE IF rs[s] = CONNECTING THEN "poll"
    ELSE "done"

\* A faulty onConnected() that leaves this.connectedAt at 0.
onConnectedAt_never(now) == 0
\* onConnected(): the value stored in this.connectedAt, client.ts 350.
onConnectedAt(now) == now

NewReq(cmd, id, phase) ==
    [cmd |-> cmd, id |-> id, phase |-> phase, outcome |-> "pending"]

\* The end of ready() (client.ts 161-165) for request r, and the .then(onReady)
\* of send() (376). On the first completion onConnected() (349-356) runs inside
\* ready(): it sets connectedAt and calls sendCommand(HELLO), whose own ready()
\* runs synchronously, so HELLO's doSend job is queued before r's.
\* rq, q, lid, mt are reqs, queries, lastId, microtasks as the caller left them.
FinishReady(r, now, rq, q, lid, mt) ==
    IF connectedAt = 0
    THEN LET cAt == onConnectedAt(now)
             hid == nextId(now, cAt, lid)
             h == Len(rq) + 1
             entry == ReadyEntry(closed, sock, readyState)
             hello == NewReq(HELLO, hid, IF entry = "done" THEN "send" ELSE entry)
         IN /\ connectedAt' = cAt
            /\ lastId' = hid
            /\ queries' = q \cup {hid}
            /\ reqs' = Append([rq EXCEPT ![r].phase = "send"], hello)
            /\ microtasks' = mt \o (IF entry = "done" THEN <<h>> ELSE <<>>) \o <<r>>
    ELSE /\ connectedAt' = connectedAt
         /\ lastId' = lid
         /\ queries' = q
         /\ reqs' = [rq EXCEPT ![r].phase = "send"]
         /\ microtasks' = Append(mt, r)

\* serverCall() / executeQuery() once validation passed: sendCommand(cmd, ...),
\* client.ts 358-377, up to the first await of ready().
Issue(now) ==
    /\ Len(reqs) < MaxReq + 1
    /\ Cardinality({i \in 1..Len(reqs) : reqs[i].cmd # HELLO}) < MaxReq
    /\ LET id == nextId(now, connectedAt, lastId)
           r == Len(reqs) + 1
           entry == ReadyEntry(closed, sock, readyState)
           cmd == QUERY_OR_CALL
           q1 == queries \cup {id}
       IN CASE entry \in {"threwClosed", "threwState"} ->
                    /\ reqs' = Append(reqs, NewReq(cmd, id, entry))
                    /\ queries' = q1
                    /\ lastId' = id
                    /\ UNCHANGED <<connecting, connectedAt, microtasks>>
               [] entry = "connect" ->
                    \* connect() (331-347) then "await": the continuation is a job
                    /\ reqs' = Append(reqs, NewReq(cmd, id, "cont"))
                    /\ queries' = q1
                    /\ lastId' = id
                    /\ connecting' = TRUE
                    /\ microtasks' = Append(microtasks, r)
                    /\ UNCHANGED connectedAt
               [] entry = "poll" ->
                    /\ reqs' = Append(reqs, NewReq(cmd, id, "poll"))
                    /\ queries' = q1
                    /\ lastId' = id
                    /\ UNCHANGED <<connecting, connectedAt, microtasks>>
               [] entry = "done" ->
                    /\ FinishReady(r, now, Append(reqs, NewReq(cmd, id, "send")), q1, id,
                                   microtasks)
                    /\ UNCHANGED connecting
    /\ UNCHANGED <<closed, sock, readyState, frames, answered, firstOpen, uvars, rvars, pure>>

\* ready() resumes after an await: after "await this.connect()" (a promise job)
\* or after "await wait(5)" (a timer). client.ts 157-165.
Resume(r, now) ==
    LET loop == ReadyLoop(sock, readyState)
    IN CASE loop = "threwNull" ->
              /\ reqs' = [reqs EXCEPT ![r].phase = "threwNull"]
              /\ UNCHANGED <<connectedAt, lastId, queries>>
              /\ microtasks' = IF reqs[r].phase = "cont" THEN Tail(microtasks)
                               ELSE microtasks
         [] loop = "poll" ->
              /\ reqs' = [reqs EXCEPT ![r].phase = "poll"]
              /\ UNCHANGED <<connectedAt, lastId, queries>>
              /\ microtasks' = IF reqs[r].phase = "cont" THEN Tail(microtasks)
                               ELSE microtasks
         [] loop = "done" ->
              FinishReady(r, now, reqs, queries, lastId,
                          IF reqs[r].phase = "cont" THEN Tail(microtasks)
                          ELSE microtasks)

\* The job queued by "await this.connect()" runs.
Cont(now) ==
    /\ microtasks # <<>>
    /\ LET r == Head(microtasks)
       IN /\ reqs[r].phase = "cont"
          /\ Resume(r, now)
    /\ UNCHANGED <<closed, connecting, sock, readyState, frames, answered,
                   firstOpen, uvars, rvars, pure>>

\* A wait(5) timer of the ready barrier fires (a task: the job queue is empty).
PollWake(r, now) ==
    /\ microtasks = <<>>
    /\ r \in 1..Len(reqs)
    /\ reqs[r].phase = "poll"
    /\ Resume(r, now)
    /\ UNCHANGED <<closed, connecting, sock, readyState, frames, answered,
                   firstOpen, uvars, rvars, pure>>

\* enum WaitBehavior: config.ts 20-33.
WAIT_FOR_SEND == 0
WAIT_FOR_ACK == 1
NEVER == 2
\* An argument that was left out.
Undefined == 3
WaitBehaviors == {WAIT_FOR_SEND, WAIT_FOR_ACK, NEVER}

\* What "x ||= y" tests: 0 and undefined are falsy.
Falsy(v) == v \in {0, Undefined}

\* hasPendingResult(): client.ts 314-321, on the value q of this.queries.
hasPendingResult(q) == q # {}

\* hasPending(): "waitFor ||= this.settings.preventUnload", client.ts 297.
EffectiveWaitFor(waitFor, pu) == IF Falsy(waitFor) THEN pu ELSE waitFor

\* hasPending(waitFor): client.ts 296-307, on the values pu, s, rs, q, buf of
\* settings.preventUnload, sock, the readyStates, queries and the bufferedAmounts.
hasPending(waitFor, pu, s, rs, q, buf) ==
    LET w == EffectiveWaitFor(waitFor, pu)
    IN IF w = NEVER THEN FALSE
       ELSE IF s = NoSock \/ rs[s] \in {CLOSED, CLOSING} THEN FALSE
       ELSE (w = WAIT_FOR_ACK /\ hasPendingResult(q)) \/ buf[s] # 0

\* getAllClients().some(c => c.hasPending()): unload.ts 18, 33. The registry
\* holds the client from its constructor until close() (registry.ts 63-72).
AnyPending(isClosed, pu, s, rs, q, buf) ==
    ~isClosed /\ hasPending(Undefined, pu, s, rs, q, buf)

\* setUnload(): unload.ts 52-59, on the guard g = [registered, listeners].
setUnload(g) ==
    IF g.registered THEN g ELSE [registered |-> TRUE, listeners |-> g.listeners + 1]

\* clearUnload(): unload.ts 43-50.
clearUnload(g) ==
    IF ~g.registered THEN g ELSE [registered |-> FALSE, listeners |-> g.listeners - 1]

\* A faulty updateUnloadHandler() that never removes the handler.
updateUnloadHandler_sticky(g, pending) == IF pending THEN setUnload(g) ELSE g
\* updateUnloadHandler(): unload.ts 32-39.
updateUnloadHandler(g, pending) == IF pending THEN setUnload(g) ELSE clearUnload(g)

Guard == [registered |-> unloadRegistered, listeners |-> listeners]

\* "if (this.settings.preventUnload !== WaitBehavior.NEVER) updateUnloadHandler()":
\* client.ts 384-386 and 407-409, evaluated on the state the caller passes.
UpdateUnload(isClosed, s, rs, q, buf) ==
    LET g == IF preventUnload # NEVER
             THEN updateUnloadHandler(Guard, AnyPending(isClosed, preventUnload, s, rs, q, buf))
             ELSE Guard
    IN /\ unloadRegistered' = g.registered
       /\ listeners' = g.listeners

\* doSend(msg): client.ts 379-387. sock.send() leaves b frames in the buffer
\* of the WebSocket when it returns.
DoSend(b) ==
    /\ microtasks # <<>>
    /\ LET r == Head(microtasks)
       IN /\ reqs[r].phase = "send"
          /\ microtasks' = Tail(microtasks)
          /\ IF closed \/ sock = NoSock \/ readyState[sock] # OPEN
             THEN /\ reqs' = [reqs EXCEPT ![r].phase = "dropped"]
                  /\ UNCHANGED <<frames, bufferedAmount, unloadRegistered, listeners>>
             ELSE /\ reqs' = [reqs EXCEPT ![r].phase = "sent"]
                  /\ frames' = Append(frames, [sock |-> sock, cmd |-> reqs[r].cmd,
                                               id |-> reqs[r].id, req |-> r])
                  /\ bufferedAmount' = [bufferedAmount EXCEPT
                                           ![sock] = IF b = 0 THEN @ ELSE b]
                  /\ UpdateUnload(closed, sock, readyState, queries, bufferedAmount')
    /\ UNCHANGED <<closed, connecting, connectedAt, lastId, sock, readyState,
                   queries, answered, firstOpen, preventUnload, pushes, drain, rvars, pure>>

\* The browser: WebSocket s transmitted what it had buffered.
SockFlush(s) ==
    /\ microtasks = <<>>
    /\ bufferedAmount[s] # 0
    /\ bufferedAmount' = [bufferedAmount EXCEPT ![s] = 0]
    /\ UNCHANGED <<closed, connecting, connectedAt, lastId, sock, readyState,
                   queries, reqs, microtasks, frames, answered, firstOpen,
                   preventUnload, unloadRegistered, listeners, pushes, drain, rvars, pure>>

\* sock.close() as the browser does it: CONNECTING/OPEN become CLOSING.
SockCloseCall(rs, s) ==
    IF rs[s] \in {CONNECTING, OPEN} THEN [rs EXCEPT ![s] = CLOSING] ELSE rs

\* close(): client.ts 254-267.
Close ==
    /\ ~closed
    /\ closed' = TRUE
    /\ IF sock # NoSock
       THEN /\ readyState' = SockCloseCall(readyState, sock)
            /\ sock' = NoSock
       ELSE UNCHANGED <<readyState, sock>>
    /\ UNCHANGED <<connecting, connectedAt, lastId, queries, reqs, microtasks,
                   frames, answered, firstOpen, uvars, rvars, pure>>

\* getServerUrl() resolved: the then-callback of connect(), client.ts 338-346.
DiscoveryOk ==
    /\ connecting
    /\ \E s \in Socks :
         /\ readyState[s] = NotCreated
         /\ \A t \in Socks : t < s => readyState[t] # NotCreated
         /\ readyState' = [readyState EXCEPT ![s] = CONNECTING]
         /\ sock' = s
    /\ connecting' = FALSE
    /\ UNCHANGED <<closed, connectedAt, lastId, queries, reqs, microtasks,
                   frames, answered, firstOpen, uvars, rvars, pure>>

\* getServerUrl() rejected (or new WebSocket threw): the catch of connect(), 346.
DiscoveryFail ==
    /\ connecting
    /\ connecting' = FALSE
    /\ UNCHANGED <<closed, connectedAt, lastId, sock, readyState, queries, reqs,
                   microtasks, frames, answered, firstOpen, uvars, rvars, pure>>

\* The browser: the handshake of WebSocket s completed.
SockOpen(s) ==
    /\ microtasks = <<>>
    /\ readyState[s] = CONNECTING
    /\ readyState' = [readyState EXCEPT ![s] = OPEN]
    /\ firstOpen' = IF firstOpen = NoSock THEN s ELSE firstOpen
    /\ UNCHANGED <<closed, connecting, connectedAt, lastId, sock, queries, reqs,
                   microtasks, frames, answered, uvars, rvars, pure>>

\* The browser: the server started the closing handshake of WebSocket s.
SockClosing(s) ==
    /\ microtasks = <<>>
    /\ readyState[s] = OPEN
    /\ readyState' = [readyState EXCEPT ![s] = CLOSING]
    /\ UNCHANGED <<closed, connecting, connectedAt, lastId, sock, queries, reqs,
                   microtasks, frames, answered, firstOpen, uvars, rvars, pure>>

\* QueryInProgress.cancel(): client.ts 76-78.
CancelOutcome == "ConnectionError"

\* A faulty onClose() that does not replace this.queries.
onCloseQueries_kept(q) == q
\* onClose(): what is left of this.queries, client.ts 489.
onCloseQueries(q) == {}

\* onClose(e): client.ts 482-491, on the values rq, q of reqs and queries.
onCloseReqs(rq, q) ==
    [i \in 1..Len(rq) |->
        IF rq[i].id \in q /\ rq[i].outcome = "pending"
        THEN [rq[i] EXCEPT !.outcome = CancelOutcome] ELSE rq[i]]

\* The browser: WebSocket s closed cleanly; only the close event fires.
SockCloseEvent(s) ==
    /\ microtasks = <<>>
    /\ readyState[s] \in {OPEN, CLOSING}
    /\ readyState' = [readyState EXCEPT ![s] = CLOSED]
    /\ reqs' = onCloseReqs(reqs, queries)
    /\ queries' = onCloseQueries(queries)
    /\ sock' = NoSock
    /\ UNCHANGED <<closed, connecting, connectedAt, lastId, microtasks, frames,
                   answered, firstOpen, uvars, rvars, pure>>

\* The browser: WebSocket s failed; readyState becomes CLOSED, then the error
\* event (onError, client.ts 474-480) and the close event (onClose) fire in the
\* same task.
SockLost(s) ==
    /\ microtasks = <<>>
    /\ readyState[s] \in {CONNECTING, OPEN, CLOSING}
    /\ LET rs1 == [readyState EXCEPT ![s] = CLOSED]
           rs2 == IF sock # NoSock THEN SockCloseCall(rs1, sock) ELSE rs1
       IN readyState' = rs2
    /\ reqs' = onCloseReqs(reqs, queries)
    /\ queries' = onCloseQueries(queries)
    /\ sock' = NoSock
    /\ UNCHANGED <<closed, connecting, connectedAt, lastId, microtasks, frames,
                   answered, firstOpen, uvars, rvars, pure>>

\* onMsg(): the error or result built from the frame, client.ts 425-440.
MsgHasError(kind) == kind \in {"error", "valObj"}

\* A faulty onMsg() that resolves whatever the frame carries.
OnMsgOutcome_resolves(kind) == "resolved"
\* onMsg(): reject(error) when the frame carries an error, else resolve, client.ts 467-471.
OnMsgOutcome(kind) ==
    IF MsgHasError(kind)
    THEN (IF kind = "valObj" THEN "ValidationError" ELSE "ServerError")
    ELSE "resolved"

\* A faulty onMsg() that does not delete the entry.
QueriesAfterMsg_kept(q, id) == q
\* onMsg(): "delete this.queries[id]", client.ts 466.
QueriesAfterMsg(q, id) == q \ {id}

\* The ids the server may answer on WebSocket s: those of frames it received.
Answerable(s) ==
    {frames[i].id : i \in {j \in 1..Len(frames) : frames[j].sock = s}}
        \ {a[1] : a \in answered}

\* onMsg(e) for a text frame that is a JSON result: client.ts 406-472.
OnMsg(s, id, kind) ==
    /\ microtasks = <<>>
    /\ readyState[s] = OPEN
    /\ id \in Answerable(s)
    /\ answered' = answered \cup {<<id, kind>>}
    /\ IF id \in queries
       THEN /\ queries' = QueriesAfterMsg(queries, id)
            /\ reqs' = [i \in 1..Len(reqs) |->
                          IF reqs[i].id = id /\ reqs[i].outcome = "pending"
                          THEN [reqs[i] EXCEPT !.outcome = OnMsgOutcome(kind)]
                          ELSE reqs[i]]
       ELSE \* no such request and no eventType: onMsg throws (463)
            UNCHANGED <<queries, reqs>>
    /\ UpdateUnload(closed, sock, readyState, queries, bufferedAmount)
    /\ UNCHANGED <<closed, connecting, connectedAt, lastId, sock, readyState,
                   microtasks, frames, firstOpen, preventUnload, bufferedAmount,
                   pushes, drain, rvars, pure>>

MaxPushes == 1      \* server push frames received

\* onMsg(e) for a frame the server sent on its own, a DataChange event:
\* client.ts 406-409, 447-461.
OnPush(s) ==
    /\ microtasks = <<>>
    /\ readyState[s] = OPEN
    /\ Len(pushes) < MaxPushes
    /\ UpdateUnload(closed, sock, readyState, queries, bufferedAmount)
    /\ pushes' = Append(pushes, [was |-> unloadRegistered, now |-> unloadRegistered',
                                 idle |-> queries = {} /\ bufferedAmount[s] = 0,
                                 live |-> ~closed /\ sock = s])
    /\ UNCHANGED <<closed, connecting, connectedAt, lastId, sock, readyState,
                   queries, reqs, microtasks, frames, answered, firstOpen,
                   preventUnload, bufferedAmount, drain, rvars, pure>>

\* The user leaves the page: the "beforeunload" event. onUnload(ev), unload.ts
\* 17-30, runs when it is registered; with something pending it asks the user,
\* who stays.
BeforeUnload ==
    /\ microtasks = <<>>
    /\ unloadRegistered
    /\ LET g == IF AnyPending(closed, preventUnload, sock, readyState, queries,
                              bufferedAmount)
                THEN Guard ELSE clearUnload(Guard)
       IN /\ unloadRegistered' = g.registered
          /\ listeners' = g.listeners
    /\ UNCHANGED <<closed, connecting, connectedAt, lastId, sock, readyState,
                   queries, reqs, microtasks, frames, answered, firstOpen,
                   preventUnload, bufferedAmount, pushes, drain, rvars, pure>>

NoDrain == [waitFor |-> Undefined, state |-> "none", live |-> FALSE,
            buffered |-> FALSE, table |-> FALSE]

\* drain(waitFor), one test of its loop: client.ts 284-288. What it saw is kept:
\* whether the connection was usable, bytes were buffered, the table non-empty.
DrainTest(waitFor) ==
    /\ drain' = [waitFor |-> waitFor,
                 state |-> IF hasPending(waitFor, preventUnload, sock, readyState,
                                         queries, bufferedAmount)
                           THEN "waiting" ELSE "returned",
                 live |-> sock # NoSock /\ readyState[sock] \in {CONNECTING, OPEN},
                 buffered |-> sock # NoSock /\ bufferedAmount[sock] # 0,
                 table |-> hasPendingResult(queries)]
    /\ UNCHANGED <<closed, connecting, connectedAt, lastId, sock, readyState,
                   queries, reqs, microtasks, frames, answered, firstOpen,
                   preventUnload, bufferedAmount, unloadRegistered, listeners,
                   pushes, rvars, pure>>

\* The application calls drain(waitFor); the default argument is WAIT_FOR_ACK.
DrainCall(waitFor) ==
    /\ microtasks = <<>>
    /\ drain.state = "none"
    /\ DrainTest(waitFor)

\* The wait(5) timer of drain() fires.
DrainWake ==
    /\ microtasks = <<>>
    /\ drain.state = "waiting"
    /\ DrainTest(drain.waitFor)

\* The constructor: client.ts 118-130 (connect() has been called), for any
\* settings.preventUnload.
ClientFields ==
    /\ closed = FALSE
    /\ connecting = TRUE
    /\ connectedAt = 0
    /\ lastId = 0
    /\ sock = NoSock
    /\ readyState = [s \in Socks |-> NotCreated]
    /\ queries = {}
    /\ reqs = <<>>
    /\ microtasks = <<>>
    /\ frames = <<>>
    /\ answered = {}
    /\ firstOpen = NoSock
    /\ bufferedAmount = [s \in Socks |-> 0]
    /\ unloadRegistered = FALSE
    /\ listeners = 0
    /\ pushes = <<>>
    /\ drain = NoDrain

\* validateSettings(): "settings.preventUnload ||= 0", config.ts 147.
ClientInit == ClientFields /\ preventUnload = WAIT_FOR_SEND

\* The client with a transport that has transmitted every frame when send()
\* returns.
ClientNext ==
    \/ \E now \in Clocks : Issue(now)
    \/ \E now \in Clocks : Cont(now)
    \/ \E r \in 1..(MaxReq + 1), now \in Clocks : PollWake(r, now)
    \/ \E b \in {0} : DoSend(b)
    \/ Close
    \/ DiscoveryOk
    \/ DiscoveryFail
    \/ \E s \in Socks : SockOpen(s)
    \/ \E s \in Socks : SockClosing(s)
    \/ \E s \in Socks : SockCloseEvent(s)
    \/ \E s \in Socks : SockLost(s)
    \/ \E s \in Socks, id \in 1..(MaxClock + MaxReq + 1), kind \in MsgKinds :
          OnMsg(s, id, kind)

(***************************************************************************)
(*                          TENANT RUNTIME                                 *)
(***************************************************************************)
RequestIds == 1..MaxRequestId

\* msgs.ts 3-20.
CallResult == 144
CallError == 145
Query == 151
CreateTimer == 152
REQUEST_ID_MASK == 16777215   \* 0x00ffffff
REQUEST_ID_FLAGS_SHIFT == 24
SUBTASK_ID_MASK == 2147483647 \* 0x7fffffff, subtasks.ts setSubtask
MAX_TIMERS == 10

\* Words are the 32-bit signed integers that the bitwise operators of
\* JavaScript produce: 1 << 31 is the sign bit.
TwoTo24 == REQUEST_ID_MASK + 1
RESUME == (-SUBTASK_ID_MASK) - 1      \* RequestFlags.Resume = 1 << 31
REJECT == 64 * TwoTo24                \* RequestFlags.Reject = 1 << 30

\* word & REQUEST_ID_MASK: the low 24 bits.
\* A faulty outTask without "requestId &= REQUEST_ID_MASK".
MaskRequestId_raw(word) == word
MaskRequestId(word) == word % TwoTo24
\* (word & flag) !== 0, for a flag of one bit.
TestFlag(word, flag) == IF flag < 0 THEN word < 0 ELSE (word \div flag) % 2 = 1
\* msgType << REQUEST_ID_FLAGS_SHIFT, for 0 <= msgType <= 255.
ShiftMsgType(msgType) ==
    IF msgType >= 128 THEN (msgType - 256) * TwoTo24 ELSE msgType * TwoTo24

\* Math.random() * 0x7fffffff, of which "(seq + 1) & 0x7fffffff" keeps the
\* integer part: the smallest seed and the largest one, after which the
\* counter wraps on the second allocation.
Seeds == {0, SUBTASK_ID_MASK - 1}

\* outTask(msgType, requestId, subtaskId, ...): the slot written.
outTask(msgType, requestId, subtaskId) ==
    <<MaskRequestId(requestId) + ShiftMsgType(msgType), subtaskId>>

\* Context.id(): the property holds the closure of the constructor,
\* detached() after detach(), or a function that tenant code assigned to it
\* (forged # 0 is what that function returns).
idOf(ctx) ==
    IF ctx.forged # 0 THEN ctx.forged
    ELSE IF ctx.detached THEN 0 ELSE ctx.req
\* A faulty resumeTask / cancelRequest that takes every context for detached.
CtxId_detached(c) == 0
CtxId(c) == idOf(ctxs[c])

Uids == 1..Len(created)
Registered(u) == <<created[u].id, u>> \in SUBTASKS
IsPromise(u) == created[u].kind = "promise"
UidOf(id) == CHOOSE u \in Uids : <<id, u>> \in SUBTASKS
HasSubtask(id) == \E u \in Uids : <<id, u>> \in SUBTASKS

\* clearSubtask(subtaskId): SUBTASKS.delete.
clearSubtask(reg, id) == {e \in reg : e[1] # id}

\* A faulty setSubtask that does not advance the counter.
NextSubtaskId_same(seq) == seq
\* setSubtask(executor): the id handed out, (seq + 1) & 0x7fffffff.
NextSubtaskId(seq) == IF seq = SUBTASK_ID_MASK THEN 0 ELSE seq + 1

\* setSubtask(executor) for a new executor of the given kind and context:
\* SUBTASKS.set replaces an entry that has the same id.
SetSubtask(kind, c) ==
    LET id == NextSubtaskId(SUBTASK_ID_SEQUENCE)
        u == Len(created) + 1
    IN /\ SUBTASK_ID_SEQUENCE' = id
       /\ SUBTASKS' = clearSubtask(SUBTASKS, id) \cup {<<id, u>>}
       /\ created' = Append(created, [id |-> id, kind |-> kind, ctx |-> c])
       /\ invoked' = Append(invoked, <<>>)

\* outTask: the 1-based position of the slot it writes, which is also the
\* new OUTBOX_TAIL: OUTBOX.push(...) when the tail is at the end of the array,
\* OUTBOX[OUTBOX_TAIL] otherwise.
WriteIndex_push(tail, len) == len + 1
WriteIndex(tail, len) == IF tail >= len THEN len + 1 ELSE tail + 1

\* outTask: the array after the slot was written.
outboxWrite(out, tail, slot) ==
    IF WriteIndex(tail, Len(out)) > Len(out)
    THEN Append(out, slot)
    ELSE [out EXCEPT ![WriteIndex(tail, Len(out))] = slot]

\* outTask(msgType, requestId, subtaskId, ...) on the module's outbox.
Emit(slot) ==
    /\ OUTBOX' = outboxWrite(OUTBOX, OUTBOX_TAIL, slot)
    /\ OUTBOX_TAIL' = WriteIndex(OUTBOX_TAIL, Len(OUTBOX))

\* The record of a runTasks call; NoTick when the last step was none.
NoTick == [ret |-> -1, base |-> 0, before |-> <<>>, emitted |-> <<>>,
           dispatched |-> <<>>, called |-> <<>>, reads |-> <<>>, failed |-> <<>>,
           unknown |-> <<>>, now |-> 0, n |-> 0, len |-> 0, slots |-> {}]

\* A step of the runtime that is not a whole runTasks call.
OutsideTick(R) ==
    /\ cancelled' = R
    /\ tick' = NoTick
    /\ UNCHANGED <<NOW, ticks>>

\* runTask(requestId, name, arg) for a user task function that throws, returns
\* a value, or returns a promise that is still pending: tasks.ts 72-98.
RunTask(R, how) ==
    /\ Len(ctxs) < MaxTasks
    /\ Len(OUTBOX) < MaxOutbox
    /\ OutsideTick(0)
    /\ CASE how = "throws" ->
              \* taskFailed(ctx, e): CallError with ctx.detach()
              /\ ctxs' = Append(ctxs, [req |-> R, detached |-> TRUE, forged |-> 0,
                                          state |-> "failed"])
              /\ Emit(outTask(CallError, R, 0))
         [] how = "returns" ->
              \* taskResult(ctx, r): CallResult with ctx.id()
              /\ ctxs' = Append(ctxs, [req |-> R, detached |-> FALSE, forged |-> 0,
                                          state |-> "done"])
              /\ Emit(outTask(CallResult, R, 0))
         [] how = "promise" ->
              /\ ctxs' = Append(ctxs, [req |-> R, detached |-> FALSE, forged |-> 0,
                                          state |-> "running"])
              /\ UNCHANGED <<OUTBOX, OUTBOX_TAIL>>
    /\ UNCHANGED <<SUBTASKS, SUBTASK_ID_SEQUENCE, created, invoked, TIMERS, ACTIVE_TIMERS,
                   cvars, pure>>

\* The promise a task function returned settles: the then / catch callbacks of
\* runTask, tasks.ts 88-94, with taskResult and taskFailed of actions.ts.
TaskSettle(c, ok) ==
    /\ c \in 1..Len(ctxs)
    /\ ctxs[c].state = "running"
    /\ Len(OUTBOX) < MaxOutbox
    /\ OutsideTick(0)
    /\ IF ok
       THEN /\ ctxs' = [ctxs EXCEPT ![c].state = "done"]
            /\ Emit(outTask(CallResult, CtxId(c), 0))
       ELSE /\ ctxs' = [ctxs EXCEPT ![c].state = "failed", ![c].detached = TRUE,
                                       ![c].forged = 0]
            /\ Emit(outTask(CallError, CtxId(c), 0))
    /\ UNCHANGED <<SUBTASKS, SUBTASK_ID_SEQUENCE, created, invoked, TIMERS, ACTIVE_TIMERS,
                   cvars, pure>>

\* Tenant code calls ctx.commit(), ctx.rollback() or ctx.executeQuery():
\* newPromiseSubtask(ctx), then outTask(Query, this.id(), subtaskId, ...).
NewPromiseSubtask(c) ==
    /\ c \in 1..Len(ctxs)
    /\ Len(created) < MaxSubtasks
    /\ Len(OUTBOX) < MaxOutbox
    /\ OutsideTick(0)
    /\ SetSubtask("promise", c)
    /\ Emit(outTask(Query, CtxId(c), NextSubtaskId(SUBTASK_ID_SEQUENCE)))
    /\ UNCHANGED <<ctxs, TIMERS, ACTIVE_TIMERS, cvars, pure>>

\* Tenant code assigns to the id property of the context it was given:
\* ctx.id = () => v.  The property is an ordinary writable one.
AssignContextId(c, v) ==
    /\ c \in 1..Len(ctxs)
    /\ CtxId(c) # v
    /\ ctxs' = [ctxs EXCEPT ![c].forged = v, ![c].detached = FALSE]
    /\ OutsideTick(0)
    /\ UNCHANGED <<SUBTASKS, SUBTASK_ID_SEQUENCE, created, invoked, TIMERS, ACTIVE_TIMERS,
                   OUTBOX, OUTBOX_TAIL, cvars, pure>>

\* setMaxTimers(limit) on the module variable MAX_TIMERS: timers.ts, "can only
\* change this value if it hasn't been set".
setMaxTimers(max, limit) == IF max = MAX_TIMERS THEN limit ELSE max

\* The value of the module variable MAX_TIMERS: its initial value unless
\* configure(settings) called setMaxTimers(settings.max_timers).
TimerLimit == IF pure.fn = "timers" THEN pure.MAX_TIMERS ELSE MAX_TIMERS

\* Tenant code calls setTimeout (kind "timeout") or setInterval ("interval").
SetTimer(kind) ==
    /\ Len(created) < MaxSubtasks
    /\ Len(OUTBOX) < MaxOutbox
    /\ ACTIVE_TIMERS < TimerLimit
    /\ OutsideTick(0)
    /\ ACTIVE_TIMERS' = ACTIVE_TIMERS + 1
    /\ SetSubtask(kind, 0)
    /\ TIMERS' = TIMERS \cup {NextSubtaskId(SUBTASK_ID_SEQUENCE)}
    /\ Emit(outTask(CreateTimer, 0, NextSubtaskId(SUBTASK_ID_SEQUENCE)))
    /\ UNCHANGED <<ctxs, cvars, pure>>

\* Tenant code calls clearTimeout(id) / clearInterval(id) on a live timer.
ClearTimeout(id) ==
    /\ id \in TIMERS
    /\ OutsideTick(0)
    /\ TIMERS' = TIMERS \ {id}
    /\ SUBTASKS' = clearSubtask(SUBTASKS, id)
    /\ UNCHANGED <<SUBTASK_ID_SEQUENCE, ctxs, created, invoked, ACTIVE_TIMERS, OUTBOX,
                   OUTBOX_TAIL, cvars, pure>>

\* A faulty resumeTask that never clears the entry.
AfterResume_kept(reg, id, isPromise) == reg
\* resumeTask: the registry after the handle was called; "only clear the task
\* if it's a promise and not a plain callback".
AfterResume(reg, id, isPromise) == IF isPromise THEN clearSubtask(reg, id) ELSE reg

\* resumeTask(requestId, subtaskId, data), where the request word carries the
\* flags.  The callback that tenant code gave to setTimeout may throw, and
\* then the wrapper does not reach its clearTimeout.
ResumeTask(word, id) ==
    /\ OutsideTick(0)
    /\ IF ~HasSubtask(id)
       THEN UNCHANGED <<SUBTASKS, invoked, TIMERS>>
       ELSE LET u == UidOf(id)
                c == created[u].ctx
                requestId == MaskRequestId(word)
            IN IF c # 0 /\ CtxId(c) # requestId
               THEN UNCHANGED <<SUBTASKS, invoked, TIMERS>>
               ELSE IF IsPromise(u)
               THEN /\ invoked' = [invoked EXCEPT ![u] =
                          Append(@, IF TestFlag(word, RESUME) THEN "resolve" ELSE "reject")]
                    /\ SUBTASKS' = AfterResume(SUBTASKS, id, TRUE)
                    /\ UNCHANGED TIMERS
               ELSE IF ~TestFlag(word, RESUME) \/ Len(invoked[u]) >= MaxCalls
               THEN \* a callback subtask has no reject handle
                    UNCHANGED <<SUBTASKS, invoked, TIMERS>>
               ELSE IF created[u].kind = "interval"
               THEN /\ invoked' = [invoked EXCEPT ![u] = Append(@, "callback")]
                    /\ SUBTASKS' = AfterResume(SUBTASKS, id, FALSE)
                    /\ UNCHANGED TIMERS
               ELSE \* the wrapper of setTimeout: callback, then clearTimeout
                    IF id \notin TIMERS
                    THEN UNCHANGED <<SUBTASKS, invoked, TIMERS>>
                    ELSE /\ invoked' = [invoked EXCEPT ![u] = Append(@, "callback")]
                         /\ \/ UNCHANGED <<SUBTASKS, TIMERS>>
                            \/ /\ TIMERS' = TIMERS \ {id}
                               /\ SUBTASKS' =
                                    AfterResume(clearSubtask(SUBTASKS, id), id, FALSE)
    /\ UNCHANGED <<SUBTASK_ID_SEQUENCE, ctxs, created, ACTIVE_TIMERS, OUTBOX,
                   OUTBOX_TAIL, cvars, pure>>

\* runTasks(tasks, results, tasks_length, results_length, now) with an empty
\* results array: setOutbox(results, 0) starts a new batch.
SetOutbox ==
    /\ OUTBOX # <<>>
    /\ OUTBOX' = <<>>
    /\ OUTBOX_TAIL' = 0
    /\ OutsideTick(0)
    /\ UNCHANGED <<SUBTASKS, SUBTASK_ID_SEQUENCE, ctxs, created, invoked, TIMERS,
                   ACTIVE_TIMERS, cvars, pure>>

\* cancelRequest(requestId): the entries it rejects and deletes.
CancelMatches(R) ==
    {u \in Uids : Registered(u) /\ IsPromise(u) /\ created[u].ctx # 0
                  /\ CtxId(created[u].ctx) = R}

\* runTask(Rc, "__cancel", R): cancelRequest(R), then taskResult for the
\* request Rc that carried the cancellation.
CancelRequest(Rc, R) ==
    /\ Len(OUTBOX) < MaxOutbox
    /\ OutsideTick(R)
    /\ invoked' = [u \in Uids |->
                     IF u \in CancelMatches(R) THEN Append(invoked[u], "cancel")
                     ELSE invoked[u]]
    /\ SUBTASKS' = {e \in SUBTASKS : e[2] \notin CancelMatches(R)}
    /\ Emit(outTask(CallResult, Rc, 0))
    /\ UNCHANGED <<SUBTASK_ID_SEQUENCE, ctxs, created, TIMERS, ACTIVE_TIMERS, cvars, pure>>

(***************************************************************************)
(* One call of runTasks as a whole.  The operators below work on the state *)
(* of the runtime modules as one record and follow the functions of the    *)
(* source; RunTasks applies them to the variables.                          *)
(***************************************************************************)
RT == [S |-> SUBTASKS, seq |-> SUBTASK_ID_SEQUENCE, ctxs |-> ctxs,
       created |-> created, invoked |-> invoked, T |-> TIMERS,
       out |-> OUTBOX, tail |-> OUTBOX_TAIL, now |-> NOW,
       \* what the call does, for the record of the tick
       emitted |-> <<>>, dispatched |-> <<>>, called |-> <<>>, reads |-> <<>>,
       failed |-> <<>>, unknown |-> <<>>, cur |-> 0, outcome |-> "", threw |-> FALSE]

\* outTask(msgType, requestId, subtaskId, ...).
outTaskOn(rt, msgType, requestId, subtaskId) ==
    LET slot == outTask(msgType, requestId, subtaskId)
    IN [rt EXCEPT !.out = outboxWrite(rt.out, rt.tail, slot),
                  !.tail = WriteIndex(rt.tail, Len(rt.out)),
                  !.emitted = Append(@, slot)]

\* taskResult(ctx, result).
taskResult(rt, c) ==
    outTaskOn([rt EXCEPT !.ctxs[c].state = "done"], CallResult, idOf(rt.ctxs[c]), 0)

\* What tenant code can throw: an Error object, or a value such as null or
\* undefined on which reading a property throws.
Thrown == {"Error", "null"}

\* taskFailed(ctx, error): "error.message" is read first, which throws a
\* TypeError when error is null or undefined; otherwise CallError is emitted
\* with the id that ctx.detach() returns.
taskFailed(rt, c, e) ==
    IF e = "null"
    THEN [rt EXCEPT !.threw = TRUE]
    ELSE outTaskOn([rt EXCEPT !.ctxs[c].state = "failed", !.ctxs[c].detached = TRUE,
                              !.ctxs[c].forged = 0],
                   CallError, idOf(rt.ctxs[c]), 0)

\* newPromiseSubtask(ctx) and the outTask(Query, this.id(), ...) of
\* Context.commit / rollback / executeQuery.
commit(rt, c) ==
    LET id == NextSubtaskId(rt.seq)
        u == Len(rt.created) + 1
        rt1 == [rt EXCEPT !.seq = id,
                          !.S = clearSubtask(@, id) \cup {<<id, u>>},
                          !.created = Append(@, [id |-> id, kind |-> "promise", ctx |-> c]),
                          !.invoked = Append(@, <<>>)]
    IN outTaskOn(rt1, Query, idOf(rt.ctxs[c]), id)

\* date.ts now(): Date.now() returns NOW.
DateNow(rt) == rt.now

\* The statements of a task function of the tenant, run in order: "now" reads
\* Date.now(), "commit" calls this.commit(); "return", "async" (return a
\* pending promise), "throw" (an Error) and "throwNull" end the call.
RECURSIVE runBody(_, _, _)
runBody(rt, c, body) ==
    IF body = <<>>
    THEN [rt EXCEPT !.outcome = "return"]
    ELSE CASE Head(body) = "now" ->
                  runBody([rt EXCEPT !.reads = Append(@, DateNow(rt))], c, Tail(body))
           [] Head(body) = "commit" -> runBody(commit(rt, c), c, Tail(body))
           [] OTHER -> [rt EXCEPT !.outcome = Head(body)]

\* cancelRequest(requestId).
cancelRequest(rt, R) ==
    LET U == 1..Len(rt.created)
        hit == {u \in U : /\ <<rt.created[u].id, u>> \in rt.S
                          /\ rt.created[u].kind = "promise"
                          /\ rt.created[u].ctx # 0
                          /\ idOf(rt.ctxs[rt.created[u].ctx]) = R}
    IN [rt EXCEPT !.invoked = [u \in U |-> IF u \in hit THEN Append(rt.invoked[u], "cancel")
                                           ELSE rt.invoked[u]],
                  !.S = {e \in rt.S : e[2] \notin hit}]

\* resumeTask(requestId, subtaskId, data) for the subtasks that tasks create
\* through their context.  The log(LogLevel.Warn, ...) calls emit nothing at
\* the default LOG_LEVEL (Error).
resumeTask(rt, word, id) ==
    LET U == 1..Len(rt.created)
        found == {u \in U : <<id, u>> \in rt.S}
    IN IF found = {}
       THEN rt
       ELSE LET u == CHOOSE x \in found : TRUE
                c == rt.created[u].ctx
            IN IF c # 0 /\ idOf(rt.ctxs[c]) # MaskRequestId(word)
               THEN rt
               ELSE IF rt.created[u].kind = "promise"
               THEN [rt EXCEPT !.invoked[u] =
                         Append(@, IF TestFlag(word, RESUME) THEN "resolve" ELSE "reject"),
                               !.S = AfterResume(@, id, TRUE)]
               ELSE IF ~TestFlag(word, RESUME)
               THEN rt
               ELSE IF rt.created[u].kind = "interval"
               THEN [rt EXCEPT !.invoked[u] = Append(@, "callback")]
               ELSE \* the wrapper of setTimeout, with a callback that returns
                    IF id \notin rt.T
                    THEN rt
                    ELSE [rt EXCEPT !.invoked[u] = Append(@, "callback"),
                                    !.T = @ \ {id},
                                    !.S = clearSubtask(@, id)]

\* tasks.ts: userTasks holds what __init registered, here one task function.
UserTaskNames == {"f"}
\* userTasks and runtimeTasks are object literals, so that userTasks[name]
\* also finds what they inherit from Object.prototype.
InheritedNames == {"toString"}
BuiltinNames == {"__cancel"}

\* runTask: userTasks[name] || runtimeTasks[name].
taskFunction(name) ==
    IF name \in UserTaskNames THEN "user"
    ELSE IF name \in InheritedNames THEN "inherited"
    ELSE IF name \in BuiltinNames THEN name
    ELSE "undefined"

\* runTask(requestId, name, arg): arg is the request to cancel for __cancel,
\* body is what the task function of the tenant does.
runTask(rt, R, name, arg, body) ==
    LET c == Len(rt.ctxs) + 1
        rt1 == [rt EXCEPT !.ctxs = Append(@, [req |-> R, detached |-> FALSE,
                                              forged |-> 0, state |-> "running"])]
        in == [rt1 EXCEPT !.called = Append(@, rt.cur)]
    IN CASE taskFunction(name) = "undefined" ->
              taskFailed([rt1 EXCEPT !.unknown = Append(@, <<rt.cur, R>>)], c, "Error")
         [] taskFunction(name) = "inherited" ->
              \* Object.prototype.toString.call(ctx, arg) returns a string
              taskResult([in EXCEPT !.unknown = Append(@, <<rt.cur, R>>)], c)
         [] taskFunction(name) = "__cancel" ->
              taskResult(cancelRequest(in, arg), c)
         [] taskFunction(name) = "user" ->
              LET r == runBody(in, c, body)
              IN CASE r.outcome = "throw" ->
                        taskFailed([r EXCEPT !.failed = Append(@, <<rt.cur, R>>)], c, "Error")
                   [] r.outcome = "throwNull" ->
                        taskFailed([r EXCEPT !.failed = Append(@, <<rt.cur, R>>)], c, "null")
                   [] r.outcome = "async" -> r
                   [] OTHER -> taskResult(r, c)

\* A slot of the inbox: [requestId, arg1, arg2], requestId null once the slot
\* was dispatched.
NullSlot == [isNull |-> TRUE, word |-> 0, name |-> "", arg |-> 0, body |-> <<>>]
TaskSlot(R, name, arg, body) ==
    [isNull |-> FALSE, word |-> R, name |-> name, arg |-> arg, body |-> body]
SubtaskSlot(word, id) ==
    [isNull |-> FALSE, word |-> word, name |-> "", arg |-> id, body |-> <<>>]

\* (requestId & REQUEST_IS_SUBTASK) !== 0
IsSubtaskWord(word) == TestFlag(word, RESUME) \/ TestFlag(word, REJECT)

\* The body of the for loop of runTasks for slot i.
dispatch(rt, i, slot) ==
    IF slot.isNull
    THEN rt
    ELSE LET rt1 == [rt EXCEPT !.dispatched = Append(@, i), !.cur = i]
         IN IF IsSubtaskWord(slot.word)
            THEN resumeTask(rt1, slot.word, slot.arg)
            ELSE runTask(rt1, slot.word, slot.name, slot.arg, slot.body)

\* for (let i = 0; i < tasks_length; i++): the i-th slot dispatched.
SlotOrder(i, n) == i

\* The for loop of runTasks from its i-th iteration on; an exception that
\* leaves runTask ends the loop.
RECURSIVE dispatchFrom(_, _, _, _)
dispatchFrom(rt, tasks, i, n) ==
    IF i > n \/ rt.threw
    THEN rt
    ELSE dispatchFrom(dispatch(rt, SlotOrder(i, n), tasks[SlotOrder(i, n)]), tasks, i + 1, n)

\* A faulty setDate that keeps the old timestamp.
setDate_kept(old, unixTimestampMillis) == old
\* date.ts setDate(unixTimestampMillis): the new NOW.
setDate(old, unixTimestampMillis) == unixTimestampMillis

\* runTasks(tasks, results, tasks_length, results_length, now).
runTasks(rt, tasks, results, tasks_length, results_length, now) ==
    dispatchFrom([rt EXCEPT !.out = results, !.tail = results_length,
                            !.now = setDate(rt.now, now)],
                 tasks, 1, tasks_length)

\* What task functions of the tenant do in the model.
Bodies == {<<"now", "commit", "now">>, <<"now", "throw">>, <<"throwNull">>,
           <<"commit", "async">>}

\* The slots the host sends: tasks of request 1 with every body and one task
\* of each other request, cancellations, two names that were not registered,
\* and answers to the subtasks created so far.
TaskSlots ==
    {TaskSlot(1, "f", 0, b) : b \in Bodies}
        \cup {TaskSlot(R, "f", 0, <<"now", "commit", "now">>) : R \in RequestIds}
        \cup {TaskSlot(MaxRequestId, "__cancel", R, <<>>) : R \in RequestIds}
        \cup {TaskSlot(MaxRequestId, name, 0, <<>>) : name \in {"nope", "toString"}}
SubtaskSlots ==
    {SubtaskSlot(RESUME + R, created[u].id) : R \in RequestIds, u \in Uids}
        \cup {SubtaskSlot(REJECT + 1, created[u].id) : u \in Uids}
Inboxes == UNION {[1..n -> TaskSlots \cup SubtaskSlots \cup {NullSlot}] : n \in 0..MaxInbox}

\* The host calls runTasks(tasks, results, Len(tasks), results_length, now),
\* where results is the array it handed over before with its first
\* results_length slots still in use, and runTasks returns getOutboxLength(), or an exception leaves it (ret -2).
RunTasks(tasks, results, results_length, now) ==
    /\ ticks < MaxTicks
    /\ ticks' = ticks + 1
    /\ results_length <= Len(results)
    /\ \E r \in {runTasks(RT, tasks, results, Len(tasks), results_length, now)} :
       /\ Len(r.ctxs) <= MaxTasks
       /\ Len(r.created) <= MaxSubtasks
       /\ \A u \in 1..Len(r.invoked) : Len(r.invoked[u]) <= MaxCalls
       /\ SUBTASKS' = r.S
       /\ SUBTASK_ID_SEQUENCE' = r.seq
       /\ ctxs' = r.ctxs
       /\ created' = r.created
       /\ invoked' = r.invoked
       /\ TIMERS' = r.T
       /\ OUTBOX' = r.out
       /\ OUTBOX_TAIL' = r.tail
       /\ NOW' = r.now
       /\ tick' = [ret |-> IF r.threw THEN -2 ELSE r.tail,
                   base |-> results_length,
                   before |-> SubSeq(results, 1, results_length),
                   emitted |-> r.emitted, dispatched |-> r.dispatched,
                   called |-> r.called, reads |-> r.reads, failed |-> r.failed,
                   unknown |-> r.unknown, now |-> now, n |-> Len(tasks),
                   len |-> Len(results),
                   slots |-> {i \in 1..Len(tasks) : ~tasks[i].isNull}]
       /\ cancelled' = 0
       /\ UNCHANGED <<ACTIVE_TIMERS, cvars, pure>>

RuntimeInit ==
    /\ SUBTASKS = {}
    /\ SUBTASK_ID_SEQUENCE \in Seeds
    /\ ctxs = <<>>
    /\ created = <<>>
    /\ invoked = <<>>
    /\ TIMERS = {}
    /\ ACTIVE_TIMERS = 0
    /\ OUTBOX = <<>>
    /\ OUTBOX_TAIL = 0
    /\ NOW = MinClock
    /\ tick = NoTick
    /\ ticks = 0
    /\ cancelled = 0

KnownIds == {created[u].id : u \in Uids}

RuntimeNext ==
    \/ \E R \in RequestIds, how \in {"throws", "returns", "promise"} : RunTask(R, how)
    \/ \E c \in 1..MaxTasks, ok \in BOOLEAN : TaskSettle(c, ok)
    \/ \E c \in 1..MaxTasks : NewPromiseSubtask(c)
    \/ \E kind \in {"timeout", "interval"} : SetTimer(kind)
    \/ \E id \in TIMERS : ClearTimeout(id)
    \/ \E f \in {RESUME, REJECT}, R \in 0..MaxRequestId, id \in KnownIds :
          ResumeTask(f + R, id)
    \/ \E Rc, R \in RequestIds : CancelRequest(Rc, R)
    \/ SetOutbox

\* No function is studied on its own.
NoCall == [fn |-> "none"]
Idle == pure = NoCall

Init == ClientInit /\ RuntimeInit /\ Idle

ClientSpec == Init /\ [][ClientNext]_vars
RuntimeSpec == Init /\ [][RuntimeNext]_vars

\* The runtime as the host drives it: whole calls of runTasks, and between
\* them the promises of asynchronous tasks settling.
TickNext ==
    \/ \E tasks \in Inboxes, results \in {OUTBOX}, results_length \in 0..MaxOutbox,
          now \in Clocks : RunTasks(tasks, results, results_length, now)
    \/ \E c \in 1..MaxTasks, ok \in BOOLEAN : TaskSettle(c, ok)
TickSpec == Init /\ [][TickNext]_vars

\* Tasks whose code also assigns to properties of its context.
TenantNext ==
    \/ \E R \in RequestIds, how \in {"throws", "returns", "promise"} : RunTask(R, how)
    \/ \E c \in 1..MaxTasks, ok \in BOOLEAN : TaskSettle(c, ok)
    \/ \E c \in 1..MaxTasks : NewPromiseSubtask(c)
    \/ \E c \in 1..MaxTasks, v \in RequestIds : AssignContextId(c, v)
    \/ SetOutbox
TenantSpec == Init /\ [][TenantNext]_vars

MaxBuffered == 1    \* frames sock.send() may leave in the buffer

\* The clock readings of the specifications below: time stands still, so ids
\* come from the "++this.lastId" branch of nextId().
Instants == {MinClock}

\* The client with a transport that buffers, whatever the application and the
\* browser do with the connection.
BufferedNext ==
    \/ \E now \in Instants : Issue(now)
    \/ \E now \in Instants : Cont(now)
    \/ \E r \in 1..(MaxReq + 1), now \in Instants : PollWake(r, now)
    \/ \E b \in 0..MaxBuffered : DoSend(b)
    \/ Close
    \/ DiscoveryOk
    \/ DiscoveryFail
    \/ \E s \in Socks : SockOpen(s)
    \/ \E s \in Socks : SockClosing(s)
    \/ \E s \in Socks : SockCloseEvent(s)
    \/ \E s \in Socks : SockLost(s)
    \/ \E s \in Socks : SockFlush(s)
    \/ \E s \in Socks, id \in 1..(MaxClock + MaxReq + 1), kind \in MsgKinds :
          OnMsg(s, id, kind)

\* Under every setting of preventUnload.
UnloadInit == ClientFields /\ preventUnload \in WaitBehaviors /\ RuntimeInit /\ Idle

\* With a server that pushes and a user who tries to leave the page.
UnloadNext ==
    \/ BufferedNext
    \/ \E s \in Socks : OnPush(s)
    \/ BeforeUnload

UnloadSpec == UnloadInit /\ [][UnloadNext]_vars

\* With an application that drains.
DrainNext ==
    \/ BufferedNext
    \/ \E waitFor \in WaitBehaviors : DrainCall(waitFor)
    \/ DrainWake

DrainSpec == UnloadInit /\ [][DrainNext]_vars

Next == ClientNext \/ RuntimeNext \/ TenantNext \/ TickNext \/ UnloadNext \/ DrainNext
Spec == Init /\ [][Next]_vars

\* What the event loop and the browser guarantee: queued promise jobs run, the
\* wait(5) timers fire, getServerUrl() settles, a connecting WebSocket opens or
\* fails, a closing WebSocket delivers its close event. Nothing forces the
\* application to issue requests or to call close(), the server to answer or
\* to close, or an open transport to fail.
ConnectSettles(s) == readyState[s] = CONNECTING /\ (SockOpen(s) \/ SockLost(s))
CloseCompletes(s) == readyState[s] = CLOSING /\ (SockCloseEvent(s) \/ SockLost(s))

ClientFairness ==
    /\ WF_vars(\E now \in Clocks : Cont(now))
    /\ WF_vars(\E b \in {0} : DoSend(b))
    /\ \A r \in 1..(MaxReq + 1) : WF_vars(\E now \in Clocks : PollWake(r, now))
    /\ WF_vars(DiscoveryOk \/ DiscoveryFail)
    /\ \A s \in Socks : WF_vars(ConnectSettles(s))
    /\ \A s \in Socks : WF_vars(CloseCompletes(s))

ClientFairSpec == ClientSpec /\ ClientFairness

(***************************************************************************)
(*                       CLAIMS ABOUT THE CLIENT                           *)
(***************************************************************************)
ReqIds == 1..(MaxReq + 1)
Pending(i) == i <= Len(reqs) /\ reqs[i].outcome = "pending"
Rejected(i) == i <= Len(reqs) /\ reqs[i].outcome \notin {"pending", "resolved"}
PhaseIs(i, p) == i <= Len(reqs) /\ reqs[i].phase = p
Written(i) == PhaseIs(i, "sent")
RejectedWith(i, e) == i <= Len(reqs) /\ reqs[i].outcome = e
IsUserReq(i) == i <= Len(reqs) /\ reqs[i].cmd # HELLO
FramesOn(s) == SelectSeq(frames, LAMBDA f : f.sock = s)
SockIsOpen == sock # NoSock /\ readyState[sock] = OPEN

\* C1: when onMsg receives a response whose id is in the request table, exactly
\* that entry is removed and exactly that request is settled, rejected if the
\* frame carries an error and resolved otherwise; every other request keeps its
\* state and the transport stays as it was (open, and the client's handle).
C1_ResponseSettlesExactlyOne ==
    [][\A a \in answered' \ answered :
          a[1] \in queries =>
            /\ queries' = queries \ {a[1]}
            /\ Len(reqs') = Len(reqs)
            /\ \A i \in 1..Len(reqs) :
                  IF reqs[i].id = a[1]
                  THEN /\ reqs[i].outcome = "pending"
                       /\ IF MsgHasError(a[2])
                          THEN reqs'[i].outcome \in {"ServerError", "ValidationError"}
                          ELSE reqs'[i].outcome = "resolved"
                  ELSE reqs'[i].outcome = reqs[i].outcome
            /\ sock' = sock
            /\ readyState' = readyState]_vars

\* C1 witness: a response rejected one request while another one is still
\* pending in the table and the transport is open.
C1_Witness ==
    \E i, j \in ReqIds :
        /\ i # j /\ i <= Len(reqs) /\ j <= Len(reqs)
        /\ reqs[i].outcome = "ServerError" /\ <<reqs[i].id, "error">> \in answered
        /\ reqs[j].outcome = "pending" /\ reqs[j].id \in queries
        /\ SockIsOpen

\* C2: on each transport the ids of the frames written, in the order written
\* (HELLO included), are strictly increasing.
C2_FrameIdsIncrease ==
    \A s \in Socks :
        LET fs == FramesOn(s)
        IN \A i, j \in 1..Len(fs) : i < j => fs[i].id < fs[j].id

\* C3: query and call frames are written in the order their requests were
\* issued.
C3_FramesInIssueOrder ==
    \A i, j \in 1..Len(frames) :
        (i < j /\ frames[i].cmd # HELLO /\ frames[j].cmd # HELLO)
            => frames[i].req < frames[j].req

\* C4: when a transport reports close, every request pending at that moment is
\* rejected with ConnectionError, the request table becomes empty and the
\* client forgets the transport handle.
C4_CloseRejectsAll ==
    [][(\E s \in Socks : readyState[s] # CLOSED /\ readyState'[s] = CLOSED) =>
          /\ \A i \in 1..Len(reqs) :
                (reqs[i].id \in queries \/ reqs[i].outcome = "pending")
                    => reqs'[i].outcome = "ConnectionError"
          /\ queries' = {}
          /\ sock' = NoSock]_vars

\* C4 witness: a transport closed while a request was pending: the request
\* carries ConnectionError, the table is empty, the handle is forgotten.
C4_Witness ==
    /\ \E i \in ReqIds : i <= Len(reqs) /\ reqs[i].outcome = "ConnectionError"
    /\ \E s \in Socks : readyState[s] = CLOSED
    /\ queries = {}
    /\ sock = NoSock

\* C5: after close(), every request that was pending when close() was called
\* (pending now, and not issued on the closed client) is eventually rejected
\* with ConnectionError.
C5_CloseRejectsPending ==
    \A i \in ReqIds :
        [](closed /\ Pending(i) /\ ~PhaseIs(i, "threwClosed")
            => <>RejectedWith(i, "ConnectionError"))

\* C6: a query or call issued on a closed client fails: its promise is
\* eventually rejected, and no frame is ever written for it.
C6_ClosedClientFails ==
    /\ [](\A k \in 1..Len(frames) : reqs[frames[k].req].phase # "threwClosed")
    /\ \A i \in ReqIds :
          [](IsUserReq(i) /\ PhaseIs(i, "threwClosed") => <>Rejected(i))

\* C7: a request issued while the client has no transport handle is eventually
\* written to the transport, provided discovery succeeds and the socket opens
\* (the client ends up holding an open transport for good).
C7_NullHandleRequestIsSent ==
    \A i \in ReqIds :
        <>[]SockIsOpen =>
            [](PhaseIs(i, "cont") => <>Written(i))

\* C8: on the first connection (the first transport that opened) a HELLO frame
\* is written before any query or call frame, and HELLO is written exactly
\* once: the frames of that transport, if any, start with the only HELLO.
C8_HelloFirstAndOnce ==
    firstOpen # NoSock =>
        LET fs == FramesOn(firstOpen)
        IN /\ \A k \in 1..Len(fs) :
                 fs[k].cmd # HELLO => \E h \in 1..(k - 1) : fs[h].cmd = HELLO
           /\ Cardinality({k \in 1..Len(fs) : fs[k].cmd = HELLO}) <= 1
           /\ fs # <<>> => Cardinality({k \in 1..Len(fs) : fs[k].cmd = HELLO}) = 1

\* C8 witness: HELLO and then two query or call frames were written on the
\* first connection.
C8_Witness ==
    /\ firstOpen # NoSock
    /\ LET fs == FramesOn(firstOpen)
       IN Len(fs) >= 3 /\ fs[1].cmd = HELLO /\ fs[2].cmd # HELLO /\ fs[3].cmd # HELLO

(***************************************************************************)
(* Claims about the tenant runtime.                                        *)
(***************************************************************************)
\* The request the context of subtask u was constructed for; 0 for a callback.
RequestOf(u) == IF created[u].ctx = 0 THEN 0 ELSE ctxs[created[u].ctx].req

\* C9: over any sequence of resumeTask and cancelRequest calls the resolve or
\* reject handle of a promise subtask is invoked at most once; the invocation
\* takes the entry out of the registry, and nothing else does, so that no
\* later call finds the subtask again.
C9_PromiseHandleInvokedOnce ==
    \A u \in Uids :
        IsPromise(u) => /\ Len(invoked[u]) <= 1
                        /\ Registered(u) <=> invoked[u] = <<>>

\* Two promise subtasks have made their terminal transition, one by a Resume
\* and one by a cancel-by-request.
C9_Witness ==
    \E u, v \in Uids : /\ IsPromise(u) /\ invoked[u] = <<"resolve">>
                       /\ IsPromise(v) /\ invoked[v] = <<"cancel">>

\* C10: a step cancelRequest(R) rejects and removes every registered promise
\* subtask that was created for request R, and it changes no subtask that was
\* created for another request and no callback subtask.
C10_CancelRejectsExactlyRequest ==
    [][cancelled' # 0 =>
         \A u \in Uids :
            IF IsPromise(u) /\ RequestOf(u) = cancelled'
            THEN Registered(u) => /\ <<created[u].id, u>> \notin SUBTASKS'
                                  /\ invoked'[u] = <<"cancel">>
            ELSE /\ invoked'[u] = invoked[u]
                 /\ Registered(u) <=> <<created[u].id, u>> \in SUBTASKS']_vars

C15_TerminalTaskIsDetached ==
    \A c \in 1..Len(ctxs) : ctxs[c].state \in {"done", "failed"} => CtxId(c) = 0

\* C14: whatever tenant code does, a Query message that executeQuery, commit
\* or rollback of a context emits carries the request id the context was
\* constructed with, or 0 when the context was detached before.
C14_ContextIdIsUnforgeable ==
    [][Len(created') > Len(created) /\ created'[Len(created')].kind = "promise" =>
         LET c == created'[Len(created')].ctx
             msg == OUTBOX'[OUTBOX_TAIL']
         IN MaskRequestId(msg[1]) =
                IF ctxs[c].state = "failed" THEN 0 ELSE ctxs[c].req]_vars

(***************************************************************************)
(* Claims about one call of runTasks.                                      *)
(***************************************************************************)
Returned == tick.ret >= 0
CountIn(seq, x) == Cardinality({j \in 1..Len(seq) : seq[j] = x})

\* C12: a runTasks call that returns has dispatched the slots of the inbox
\* in index order and returns outboxLen + k for the k messages it emitted;
\* these are in outbox slots outboxLen .. outboxLen + k - 1 in emission order
\* and the slots below outboxLen are as they were.
C12_TickFillsOutboxInOrder ==
    Returned =>
        /\ Len(tick.dispatched) = Cardinality(tick.slots)
        /\ \A j \in 1..Len(tick.dispatched) :
              /\ tick.dispatched[j] \in tick.slots
              /\ \A k \in 1..Len(tick.dispatched) :
                    j < k => tick.dispatched[j] < tick.dispatched[k]
        /\ tick.ret = tick.base + Len(tick.emitted)
        /\ OUTBOX_TAIL = tick.ret
        /\ \A j \in 1..Len(tick.emitted) : OUTBOX[tick.base + j] = tick.emitted[j]
        /\ \A j \in 1..tick.base : OUTBOX[j] = tick.before[j]

\* A call that was given an outbox with one slot in use and more slots behind
\* it, dispatched two slots and emitted at least two messages.
C12_Witness ==
    /\ Returned
    /\ tick.base = 1
    /\ Len(tick.dispatched) = 2
    /\ Len(tick.emitted) >= 2
    /\ tick.len > tick.base

\* C13: when a task function throws during a runTasks call, a CallError for
\* its request is emitted and the call dispatches the remaining slots and
\* returns.
C13_ThrowingTaskIsReported ==
    tick.failed # <<>> =>
        /\ Returned
        /\ Len(tick.dispatched) = Cardinality(tick.slots)
        /\ \A k \in 1..Len(tick.failed) :
              CountIn(tick.emitted, outTask(CallError, tick.failed[k][2], 0)) >= 1

\* C16: for a task slot whose name was not registered and is no built-in, the
\* call invokes no function and emits exactly one CallError for the request.
C16_UnknownNameIsRejected ==
    \A k \in 1..Len(tick.unknown) :
        /\ CountIn(tick.called, tick.unknown[k][1]) = 0
        /\ CountIn(tick.emitted, outTask(CallError, tick.unknown[k][2], 0))
              = Cardinality({j \in 1..Len(tick.unknown) :
                                tick.unknown[j][2] = tick.unknown[k][2]})

\* C17: every Date.now() that tenant code reads during a runTasks call
\* returns the now argument of that call.
C17_DateNowIsTickTime ==
    \A k \in 1..Len(tick.reads) : tick.reads[k] = tick.now

\* A call whose now differs from the time the runtime was loaded at, in which
\* two task functions read the clock.
C17_Witness ==
    /\ Len(tick.reads) >= 3
    /\ tick.now # MinClock
    /\ Len(tick.dispatched) = 2

(***************************************************************************)
(*                 The unload guard and drain()                            *)
(***************************************************************************)
NothingBuffered == \A s \in Socks : bufferedAmount[s] = 0

\* The step called sock.send().
FrameSent == frames' # frames
\* The step was onMsg() for a response of the server.
ResponseReceived == answered' # answered
\* The step was onMsg() for a frame the server sent on its own.
PushReceived == pushes' # pushes

\* C18: with preventUnload = WAIT_FOR_ACK and nothing buffered, no beforeunload
\* handler is registered before the first frame is sent or received; a send
\* whose request is unacknowledged leaves it registered exactly once, the first
\* send as well as a later one; and when the client has processed the response
\* to the only outstanding request the handler is no longer registered.
C18_GuardFollowsOutstandingRequests ==
    [][(preventUnload = WAIT_FOR_ACK /\ NothingBuffered /\ NothingBuffered')
        => /\ (frames' = <<>> /\ pushes' = <<>>) => ~unloadRegistered'
           /\ (FrameSent /\ frames'[Len(frames')].id \in queries')
                 => (unloadRegistered' /\ listeners' = 1)
           /\ (ResponseReceived /\ queries # {} /\ queries' = {})
                 => ~unloadRegistered']_vars

\* A request is outstanding: sent on the open connection of the live client,
\* not answered, its entry in the request table.
Outstanding ==
    /\ ~closed
    /\ sock # NoSock
    /\ readyState[sock] = OPEN
    /\ \E i \in 1..Len(frames) :
          /\ frames[i].sock = sock
          /\ frames[i].id \in queries
          /\ frames[i].id \notin {a[1] : a \in answered}

\* C19: with preventUnload = WAIT_FOR_ACK the guard is installed while a request
\* is outstanding, and when the responses have been received (the request table
\* is empty, nothing is buffered) the next frame a live client sends or receives
\* leaves the guard removed.
C19_GuardRemovedOnNextFrame ==
    [][preventUnload = WAIT_FOR_ACK
        => /\ Outstanding' => (unloadRegistered' /\ listeners' = 1)
           /\ (/\ FrameSent \/ ResponseReceived \/ PushReceived
               /\ ~closed
               /\ queries = {} /\ queries' = {}
               /\ NothingBuffered /\ NothingBuffered')
                 => (~unloadRegistered' /\ listeners' = 0)]_vars

\* C19 happens: a response emptied the request table and left the guard
\* installed, and the push frame received next removed it.
C19_Witness ==
    /\ preventUnload = WAIT_FOR_ACK
    /\ answered # {}
    /\ ~closed
    /\ \E i \in 1..Len(pushes) :
          pushes[i].was /\ ~pushes[i].now /\ pushes[i].idle /\ pushes[i].live
    /\ ~unloadRegistered

\* What drain(waitFor) is to wait on, by the name of its argument: buffered is
\* "bytes are buffered", table is "the request table is non-empty".
NamedCondition(waitFor, buffered, table) ==
    CASE waitFor = WAIT_FOR_SEND -> buffered
      [] waitFor = WAIT_FOR_ACK -> buffered \/ table
      [] OTHER -> FALSE

\* C20: on a usable connection drain(waitFor) goes on waiting exactly when the
\* condition its argument names holds, whatever settings.preventUnload is:
\* WAIT_FOR_SEND while bytes are buffered, WAIT_FOR_ACK while bytes are buffered
\* or the request table is non-empty, NEVER not at all.
C20_DrainWaitsOnNamedCondition ==
    (drain.state # "none" /\ drain.live)
       => (drain.state = "waiting"
             <=> NamedCondition(drain.waitFor, drain.buffered, drain.table))

(***************************************************************************)
(*                 Functions studied on their own                          *)
(***************************************************************************)
ProgramInit == ClientInit /\ RuntimeInit

Max(a, b) == IF a >= b THEN a ELSE b

\* ---- nextId(): client.ts 396-404 ----
MaxIds == 5         \* consecutive id allocations

\* Clock readings, as milliseconds after connectedAt.
IdOffsets == {0, 1, 7, 20}
\* this.lastId before the first allocation: 0 on a fresh client, an epoch
\* timestamp when ids were allocated while connectedAt was still 0.
StartIds == {0, MaxClock}

IdInit ==
    /\ ProgramInit
    /\ pure \in {[fn |-> "nextId", connectedAt |-> t0, lastId |-> l, calls |-> <<>>] :
                    t0 \in Clocks, l \in StartIds}

\* One call of nextId() when the clock reads now.
NextIdCall(now) ==
    /\ pure.fn = "nextId"
    /\ Len(pure.calls) < MaxIds
    /\ LET id == nextId(now, pure.connectedAt, pure.lastId)
       IN pure' = [pure EXCEPT !.lastId = id,
                               !.calls = Append(@, [now |-> now, before |-> pure.lastId,
                                                    id |-> id])]
    /\ UNCHANGED <<cvars, rvars>>

IdNext == \E d \in IdOffsets : NextIdCall(pure.connectedAt + d)

IdSpec == IdInit /\ [][IdNext]_vars

\* The clock readings of the calls so far, as offsets from connectedAt.
ReadOffsets == [i \in 1..Len(pure.calls) |-> pure.calls[i].now - pure.connectedAt]
AllocatedIds == [i \in 1..Len(pure.calls) |-> pure.calls[i].id]

\* C21: every id allocation returns max(lastId + 1, now - connectedAt) and
\* stores it as lastId, whatever the clock reads; from lastId = 0 the readings
\* t0, t0, t0+7, t0+1, t0+20 give the ids 1, 2, 7, 8, 20.
C21_IdIsMaxOfSuccessorAndElapsed ==
    pure.fn = "nextId" =>
        /\ \A i \in 1..Len(pure.calls) :
              /\ pure.calls[i].id = Max(pure.calls[i].before + 1,
                                        pure.calls[i].now - pure.connectedAt)
              /\ IF i < Len(pure.calls) THEN pure.calls[i + 1].before = pure.calls[i].id
                 ELSE pure.lastId = pure.calls[i].id
        /\ (Len(pure.calls) >= 5 /\ pure.calls[1].before = 0
               /\ SubSeq(ReadOffsets, 1, 5) = <<0, 0, 7, 1, 20>>)
              => SubSeq(AllocatedIds, 1, 5) = <<1, 2, 7, 8, 20>>

\* C21 happens: the five readings of the example, the clock going backwards.
C21_Witness ==
    /\ pure.fn = "nextId"
    /\ Len(pure.calls) >= 5
    /\ pure.calls[1].before = 0
    /\ SubSeq(ReadOffsets, 1, 5) = <<0, 0, 7, 1, 20>>

\* ---- validate(): validation.ts 113-144 ----
\* JavaScript values, with their type.
JsUndefined == [type |-> "undefined"]
JsNull == [type |-> "null"]
JsString(str) == [type |-> "string", value |-> str]
\* a === b
StrictEquals(a, b) == a = b

ParamNames == {"x", "y", "__PARAM_"}
ParamValues == {JsUndefined, JsNull, JsString("v")}
ParamMaps == UNION {[names -> ParamValues] : names \in SUBSET ParamNames}

\* Validator functions: one that accepts everything, one that rejects null.
ValidatorKinds == {"pass", "nonNull"}
MaxValidators == 2  \* validators passed to validate()
ValidatorLists == UNION {[1..n -> ValidatorKinds] : n \in 0..MaxValidators}

\* The result null, and "new ValidationErrors()" (validation.ts 56-59).
NoErrors == [isNull |-> TRUE, errors |-> <<>>, nonFieldErrors |-> <<>>]
NewValidationErrors == [isNull |-> FALSE, errors |-> <<>>, nonFieldErrors |-> <<>>]

\* ValidationErrors.add(name, error) for a non-empty name: validation.ts 67-73.
add(errors, name, error) ==
    IF name \in DOMAIN errors.errors THEN errors
    ELSE [errors EXCEPT !.errors =
              [k \in DOMAIN errors.errors \cup {name} |->
                  IF k = name THEN error ELSE errors.errors[k]]]

\* addError(errors, key, err): validation.ts 90-96.
addError(errors, key, err) ==
    add(IF errors.isNull THEN NewValidationErrors ELSE errors, key, err)

\* hasErrors(): validation.ts 78-88.
hasErrors(errors) == errors.nonFieldErrors # <<>> \/ DOMAIN errors.errors # {}

\* The body of the loop over the own keys of params, validation.ts 121-128:
\* param is the key, a string.
checkParam(errors, param) ==
    IF StrictEquals(JsString(param), JsUndefined)
    THEN addError(errors, param, "param is undefined")
    ELSE IF StrictEquals(JsString(param), JsString("__PARAM_"))
    THEN addError(errors, param, "missing value for late-bound")
    ELSE errors

RECURSIVE checkParams(_, _)
checkParams(errors, names) ==
    IF names = {} THEN errors
    ELSE LET param == CHOOSE k \in names : TRUE
         IN checkParams(checkParam(errors, param), names \ {param})

\* validator(errors, params) for the two validators.
RECURSIVE rejectNulls(_, _, _)
rejectNulls(errors, params, names) ==
    IF names = {} THEN errors
    ELSE LET k == CHOOSE n \in names : TRUE
         IN rejectNulls(IF params[k] = JsNull THEN add(errors, k, "null") ELSE errors,
                        params, names \ {k})

runValidator(kind, errors, params) ==
    IF kind = "nonNull" THEN rejectNulls(errors, params, DOMAIN params) ELSE errors

RECURSIVE runValidators(_, _, _, _)
runValidators(validators, i, errors, params) ==
    IF i > Len(validators) THEN errors
    ELSE runValidators(validators, i + 1, runValidator(validators[i], errors, params),
                       params)

\* validate(query, params, validators): validation.ts 113-144.
validate(params, validators) ==
    LET e0 == IF Len(validators) = 0 THEN NoErrors ELSE NewValidationErrors
        e1 == checkParams(e0, DOMAIN params)
        e2 == runValidators(validators, 1, e1, params)
    IN IF ~e2.isNull /\ hasErrors(e2) THEN e2 ELSE NoErrors

ValidateInit ==
    /\ ProgramInit
    /\ pure \in {[fn |-> "validate", params |-> ps, validators |-> vs, returned |-> FALSE,
                  result |-> NoErrors] : ps \in ParamMaps, vs \in ValidatorLists}

ValidateCall ==
    /\ pure.fn = "validate"
    /\ ~pure.returned
    /\ pure' = [pure EXCEPT !.returned = TRUE,
                            !.result = validate(pure.params, pure.validators)]
    /\ UNCHANGED <<cvars, rvars>>

ValidateSpec == ValidateInit /\ [][ValidateCall]_vars

UndefinedParams == {k \in DOMAIN pure.params : pure.params[k] = JsUndefined}

\* C22: validate records an error for every parameter whose value is undefined,
\* so with at least one such parameter its result is not null, with validators
\* and without.
C22_UndefinedParamsAreRejected ==
    (pure.fn = "validate" /\ pure.returned /\ UndefinedParams # {})
        => /\ ~pure.result.isNull
           /\ UndefinedParams \subseteq DOMAIN pure.result.errors

\* ---- mergeParams(): sql.ts 123-149 ----
\* A parameter name is a base name and a decimal suffix; n = 0: no suffix.
\* key.match(/(.+?)\d+$/) (sql.ts 136-137) splits a name this way.
Key(base, n) == [base |-> base, n |-> n]
baseKey(key) == key.base
MergeKeys == {Key("x", 0), Key("x", 2), Key("y", 0)}
MergeValues == {"a", "b"}
MergeMaps == UNION {[keys -> MergeValues] : keys \in SUBSET MergeKeys}

MaxOther == 2       \* own keys of the second argument of mergeParams

\* The second argument in the order "for (let key in other)" visits it.
OtherLists ==
    {o \in UNION {[1..n -> MergeKeys \X MergeValues] : n \in 0..MaxOther} :
        \A i, j \in 1..Len(o) : i # j => o[i][1] # o[j][1]}

\* m with key set to val.
Put(m, key, val) == [k \in DOMAIN m \cup {key} |-> IF k = key THEN val ELSE m[k]]

\* The suffixes i >= 2 for which `${baseKey}${i}` is an own property of params.
UsedSuffixes(params, base) == {k.n : k \in {q \in DOMAIN params : q.base = base /\ q.n >= 2}}

Least(S) == CHOOSE x \in S : \A y \in S : x <= y

\* The loop "do { key = `${baseKey}${i++}` } while (!params.hasOwnProperty(key))"
\* (sql.ts 140-143): it goes on while the name is NOT in params, so it ends at
\* the first suffix that is in use and never ends when there is none.
renameLoops(params, base) == UsedSuffixes(params, base) = {}
renamed(params, base) == Key(base, Least(UsedSuffixes(params, base)))

\* mergeParams(params, other) from the i-th key of other on: sql.ts 125-148.
\* st is [params, dest, diverged]: the caller's object, the copy, a loop that
\* does not end.
RECURSIVE mergeFrom(_, _, _)
mergeFrom(st, other, i) ==
    IF i > Len(other) \/ st.diverged THEN st
    ELSE LET key == other[i][1]
             val == other[i][2]
             dest == IF st.dest.isNull THEN [isNull |-> FALSE, map |-> st.params]
                     ELSE st.dest
         IN IF key \in DOMAIN st.params
            THEN IF renameLoops(st.params, baseKey(key))
                 THEN [st EXCEPT !.dest = dest, !.diverged = TRUE]
                 ELSE mergeFrom([params |-> Put(st.params, renamed(st.params, baseKey(key)), val),
                                 dest |-> dest, diverged |-> FALSE], other, i + 1)
            ELSE mergeFrom([params |-> Put(st.params, key, val), dest |-> dest,
                            diverged |-> FALSE], other, i + 1)

NoMap == [isNull |-> TRUE, map |-> <<>>]

\* mergeParams(params, other): what it returns ("dest || params"), whether it
\* returns, and what it leaves in the object the caller passed.
mergeParams(params, other) ==
    LET st == mergeFrom([params |-> params, dest |-> NoMap, diverged |-> FALSE], other, 1)
    IN [state |-> IF st.diverged THEN "diverged" ELSE "returned",
        result |-> IF st.dest.isNull THEN st.params ELSE st.dest.map,
        params |-> st.params]

MergeInit ==
    /\ ProgramInit
    /\ pure \in {[fn |-> "mergeParams", params |-> ps, other |-> o, state |-> "called",
                  result |-> <<>>, after |-> ps] : ps \in MergeMaps, o \in OtherLists}

MergeParamsCall ==
    /\ pure.fn = "mergeParams"
    /\ pure.state = "called"
    /\ LET r == mergeParams(pure.params, pure.other)
       IN pure' = [pure EXCEPT !.state = r.state, !.result = r.result, !.after = r.params]
    /\ UNCHANGED <<cvars, rvars>>

MergeSpec == MergeInit /\ [][MergeParamsCall]_vars

\* The first name base2, base3, ... that is not a key of m.
FirstFree(m, base) ==
    Key(base, Least({n \in 2..(Cardinality(DOMAIN m) + 2) : Key(base, n) \notin DOMAIN m}))

\* The merge of other, from its i-th key on, into m, as the claim describes it.
RECURSIVE MergedFrom(_, _, _)
MergedFrom(m, other, i) ==
    IF i > Len(other) THEN m
    ELSE LET key == other[i][1]
         IN MergedFrom(Put(m, IF key \in DOMAIN m THEN FirstFree(m, baseKey(key)) ELSE key,
                           other[i][2]), other, i + 1)

\* C23: mergeParams(params, other) returns a map with every key of params
\* unchanged and every value of other, under its own key when params has no
\* such key, otherwise under the first free name base2, base3, ...; {x: a}
\* merged with {x: b} is {x: a, x2: b}.
C23_MergeKeepsAndRenames ==
    (pure.fn = "mergeParams" /\ pure.state # "called")
        => /\ pure.state = "returned"
           /\ pure.result = MergedFrom(pure.params, pure.other, 1)

\* ---- the compiler: compiler.ts compile(), visitor.ts, sql.ts mergeQueries ----
MaxSites == 3       \* executeQuery call sites in the program compiled

\* An executeQuery call site: the normalized text its query resolves to (or
\* that it does not resolve), the validator functions it names (or that one of
\* them does not resolve). Its location is its position in the program.
QueryTexts == {"q1", "q2"}
ValidatorNames == {"v", "w"}
\* The order in which a call site lists them.
NameRank(name) == IF name = "v" THEN 1 ELSE 2
CallSites ==
    [text : QueryTexts, resolved : BOOLEAN,
     names : {{}, {"v"}, {"w"}}, validatorsResolved : BOOLEAN]

\* objectShallowEquals(a, b): util.ts 39-53. The values are objects, compared
\* with !== : by identity.
objectShallowEquals(a, b) ==
    /\ \A k \in DOMAIN a : k \in DOMAIN b /\ a[k].ref = b[k].ref
    /\ \A k \in DOMAIN b : k \in DOMAIN a

\* mergeQueries(keep, merge): "keep.referenced.concat(merge.referenced)", sql.ts 84.
mergeReferenced(keep, merge) == keep \o merge

\* mergeQueries(keep, merge): sql.ts 83-88; throws when the validators differ.
mergeQueries(keep, merge) ==
    [query |-> [keep EXCEPT !.referenced = mergeReferenced(keep.referenced, merge.referenced)],
     threw |-> ~objectShallowEquals(keep.validators, merge.validators)]

\* getValidator(decl): visitor.ts 195-198, a new Location object at each call.
\* ref is the identity of the object; first is the identity of the first one.
validatorsOf(site, first) ==
    IF ~site.validatorsResolved THEN <<>>
    ELSE [name \in site.names |->
             [decl |-> name,
              ref |-> first + Cardinality({n \in site.names : NameRank(n) < NameRank(name)})]]

StartCompile == [fn |-> "compile", queries |-> <<>>, PRINTED_RULES |-> TRUE,
                 state |-> "visiting", result |-> FALSE, exit |-> 0, sites |-> <<>>,
                 failures |-> 0, refs |-> 0]

CompileInit == ProgramInit /\ pure = StartCompile

\* printError(): visitor.ts 457-465, and printRules(), 441-455.
printError(c) == [c EXCEPT !.PRINTED_RULES = TRUE, !.failures = @ + 1]

\* The visitor at an executeQuery call: visitor.ts 117-141.
VisitCall(site) ==
    /\ pure.fn = "compile"
    /\ pure.state = "visiting"
    /\ Len(pure.sites) < MaxSites
    /\ LET loc == Len(pure.sites) + 1
           c0 == [pure EXCEPT !.sites = Append(@, site)]
           c1 == IF site.validatorsResolved THEN c0 ELSE printError(c0)
           sql == [validators |-> validatorsOf(site, pure.refs), referenced |-> <<loc>>]
           c2 == [c1 EXCEPT !.refs = @ + Cardinality(DOMAIN sql.validators)]
       IN IF ~site.resolved
          THEN pure' = printError(c1)
          ELSE IF site.text \in DOMAIN pure.queries
          THEN LET m == mergeQueries(pure.queries[site.text], sql)
               IN pure' = [c2 EXCEPT !.queries[site.text] = m.query,
                                     !.state = IF m.threw THEN "threw" ELSE @]
          ELSE pure' = [c2 EXCEPT !.queries =
                           [t \in DOMAIN pure.queries \cup {site.text} |->
                               IF t = site.text THEN sql ELSE pure.queries[t]]]
    /\ UNCHANGED <<cvars, rvars>>

\* hadError(): visitor.ts 467-469.
hadError(c) == c.PRINTED_RULES

\* The build command: "if (!compile(args)) process.exit(1)", cli.ts 14-17.
exitCode(result) == IF result THEN 0 ELSE 1

\* compile() after the last source file, "return !hadError()" (compiler.ts
\* 59-62), or in its catch clause (63-66); then the build command.
CompileReturns ==
    /\ pure.fn = "compile"
    /\ pure.state \in {"visiting", "threw"}
    /\ LET result == IF pure.state = "threw" THEN FALSE ELSE ~hadError(pure)
       IN pure' = [pure EXCEPT !.state = "returned", !.result = result,
                               !.exit = exitCode(result)]
    /\ UNCHANGED <<cvars, rvars>>

CompileNext ==
    \/ \E site \in CallSites : VisitCall(site)
    \/ CompileReturns

CompileSpec == CompileInit /\ [][CompileNext]_vars

\* The call sites visited whose query resolved to text.
SitesOf(text) ==
    {i \in 1..Len(pure.sites) : pure.sites[i].resolved /\ pure.sites[i].text = text}
Elements(seq) == {seq[i] : i \in 1..Len(seq)}
\* The call sites of one query name the same, resolved, validator functions.
SameValidators ==
    \A i, j \in 1..Len(pure.sites) :
        (pure.sites[i].resolved /\ pure.sites[j].resolved
            /\ pure.sites[i].text = pure.sites[j].text)
          => /\ pure.sites[i].names = pure.sites[j].names
             /\ pure.sites[i].validatorsResolved /\ pure.sites[j].validatorsResolved

\* C24: when the executeQuery call sites that yield the same normalized text
\* name the same validator functions, the compiler keeps one record per text,
\* its referenced list holds the locations of all of them, and merging raised
\* no error.
C24_SameQueryMergesIntoOneRecord ==
    (pure.fn = "compile" /\ SameValidators)
        => /\ pure.state # "threw"
           /\ \A text \in QueryTexts :
                 IF SitesOf(text) = {} THEN text \notin DOMAIN pure.queries
                 ELSE /\ text \in DOMAIN pure.queries
                      /\ Elements(pure.queries[text].referenced) = SitesOf(text)

\* C26: compile returns true and the build command exits with 0 exactly when no
\* query and no validator failed to resolve, and returns false with exit code 1
\* exactly when one did.
C26_ExitCodeReportsResolutionFailures ==
    (pure.fn = "compile" /\ pure.state = "returned" /\ Elements(pure.sites) # {})
        => /\ pure.result <=> pure.failures = 0
           /\ pure.exit = IF pure.failures = 0 THEN 0 ELSE 1

\* ---- getQueryFromTemplate(): visitor.ts 395-439, renumberVars(): sql.ts 26-34 ----
\* A query text is kept as the sequence of its placeholders: n stands for $n.
\* All numbers stay below 10, where /\$(\d+?)/ matches the whole number.
MaxSpans == 3       \* ${...} spans of the parent template
MaxNested == 2      \* placeholders of a nested template

\* renumberVars(query, numPrevParams): sql.ts 26-34.
renumberVars(query, numPrevParams) ==
    IF numPrevParams = 0 THEN query
    ELSE [i \in 1..Len(query) |-> query[i] + numPrevParams]

\* SQLFromQuery(query, paramCount, params): sql.ts 36-38; params as the
\* sequence of its keys in insertion order.
SQLFromQuery(query, paramCount, params) ==
    [query |-> query, paramCount |-> paramCount, params |-> params]

\* A nested template sql`... ${e1} ... ${em}` whose expressions are not names:
\* what getQueryFromTemplate returns for it (visitor.ts 424-428).
NestedQuery(m) ==
    SQLFromQuery([i \in 1..m |-> i], m, [i \in 1..m |-> <<"$", i>>])

\* The expression of a span: the name of a nested sql template with m
\* placeholders, any other name, or another expression.
SpanKinds == {[kind |-> "nested", m |-> m] : m \in 0..MaxNested}
                \cup {[kind |-> "name", m |-> 0], [kind |-> "expr", m |-> 0]}
Templates == UNION {[1..n -> SpanKinds] : n \in 1..MaxSpans}

\* params[key] = "string" on the keys in insertion order.
SetKey(params, key) ==
    IF \E i \in 1..Len(params) : params[i] = key THEN params ELSE Append(params, key)

\* The loop over template.templateSpans from span i on: visitor.ts 409-430.
\* q is the SQL built so far.
RECURSIVE spansFrom(_, _, _)
spansFrom(q, spans, i) ==
    IF i > Len(spans) THEN q
    ELSE LET span == spans[i]
         IN IF span.kind = "nested"
            THEN LET nested == NestedQuery(span.m)
                 IN spansFrom([q EXCEPT
                                  !.query = @ \o renumberVars(nested.query, nested.paramCount),
                                  !.paramCount = @ + nested.paramCount], spans, i + 1)
            ELSE IF span.kind = "name"
            THEN spansFrom([q EXCEPT !.query = Append(@, q.paramCount + 1),
                                     !.paramCount = @ + 1,
                                     !.params = SetKey(@, <<"name", i>>)], spans, i + 1)
            ELSE spansFrom([q EXCEPT !.query = Append(@, q.paramCount + 1),
                                     !.paramCount = @ + 1,
                                     !.params = SetKey(@, <<"$", q.paramCount + 1>>)],
                           spans, i + 1)

\* getQueryFromTemplate(node) for a template expression: visitor.ts 395-439.
getQueryFromTemplate(spans) == spansFrom(SQLFromQuery(<<>>, 0, <<>>), spans, 1)

TemplateInit ==
    /\ ProgramInit
    /\ pure \in {[fn |-> "getQueryFromTemplate", spans |-> t, returned |-> FALSE,
                  sql |-> SQLFromQuery(<<>>, 0, <<>>)] : t \in Templates}

TemplateCall ==
    /\ pure.fn = "getQueryFromTemplate"
    /\ ~pure.returned
    /\ pure' = [pure EXCEPT !.returned = TRUE, !.sql = getQueryFromTemplate(pure.spans)]
    /\ UNCHANGED <<cvars, rvars>>

TemplateSpec == TemplateInit /\ [][TemplateCall]_vars

\* The template inlines a nested template that has placeholders.
InlinesNested ==
    \E i \in 1..Len(pure.spans) : pure.spans[i].kind = "nested" /\ pure.spans[i].m > 0

\* C25: when a parent template inlines a nested sql template, the placeholders
\* of the composed text are $1..$paramCount from left to right (each nested $k
\* shifted by the number of placeholders before its slot) and there is one key
\* of the parameter map for each of them.
C25_ComposedPlaceholdersAreConsecutive ==
    (pure.fn = "getQueryFromTemplate" /\ pure.returned /\ InlinesNested)
        => /\ pure.sql.query = [n \in 1..pure.sql.paramCount |-> n]
           /\ Len(pure.sql.params) = pure.sql.paramCount

\* ---- getServerUrl(): discover.ts 108-126, maybeRefreshServers 134-144,
\* ---- refreshServers 146-162 ----
MaxConnects == 3    \* getServerUrl calls: the connect and the reconnects

\* Arrays of host names and strings (sequences of characters) are both
\* sequences here: the code indexes and measures them the same way.
LiteralLists == {<<"a">>, <<"a", "b">>, <<"b", "a">>}
DiscoveredLists == {<<"c">>, <<"c", "d">>, <<>>}
\* e.message of a failed discovery request.
ErrorMessages == {<<"5", "0", "3">>, <<>>}
AccountIds == {"", "acct"}
TTLSeconds == {0, 1}
\* Clock readings in milliseconds; serverCache.refreshedAt starts long before.
DiscoveryTimes == {5000, 5500, 7000}

\* What a discovery request does: it delivers a list or it fails.
FetchOutcomes == {[ok |-> TRUE, value |-> l] : l \in DiscoveredLists}
                    \cup {[ok |-> FALSE, value |-> e] : e \in ErrorMessages}

\* The settings validateSettings() accepts (config.ts 120-150): a server list
\* or a discovery service, and an account id with the discovery service alone.
DiscoverySettings ==
    {st \in [hasServers : BOOLEAN, servers : LiteralLists, discoveryUrl : BOOLEAN,
             accountId : AccountIds, discoveryTTLSeconds : TTLSeconds] :
        /\ st.hasServers \/ st.discoveryUrl
        /\ (~st.hasServers => st.servers = <<"a">>)
        /\ (~st.hasServers /\ st.discoveryUrl) => st.accountId # ""}

\* The host part of a URL, as the sequence of the strings it is made of.
Host(name) == <<name>>
\* servers[i] for a 0-based i, as the template literal prints it.
At(servers, i) == Host(IF i + 1 \in 1..Len(servers) THEN servers[i + 1] ELSE "undefined")

\* maybeRefreshServers(settings, force): discover.ts 134-144, with
\* refreshServers (146-162) and its ".catch(e => serverCache.error = e.message)".
\* d is [settings, cache, _lastServer]; the result is what the promise resolves
\* to, the cache, and whether a request was made and failed.
maybeRefreshServers(d, force, fetch, now) ==
    IF ~d.settings.discoveryUrl
    THEN [servers |-> <<>>, cache |-> d.cache, failed |-> FALSE]
    ELSE IF ~force /\ now - d.cache.refreshedAt < d.settings.discoveryTTLSeconds * 1000
    THEN [servers |-> d.cache.servers, cache |-> d.cache, failed |-> FALSE]
    ELSE IF fetch.ok
    THEN [servers |-> fetch.value,
          cache |-> [servers |-> fetch.value, error |-> <<>>, refreshedAt |-> now],
          failed |-> FALSE]
    ELSE [servers |-> fetch.value, cache |-> [d.cache EXCEPT !.error = fetch.value],
          failed |-> TRUE]

\* getServerUrl(): "if (settings._lastServer >= servers.length) { ... }",
\* discover.ts 115-118. again is maybeRefreshServers(settings, true).
wrapAround(d, servers, again) ==
    IF d.lastServer >= Len(servers)
    THEN [servers |-> again.servers, lastServer |-> 0, cache |-> again.cache,
          failed |-> again.failed]
    ELSE [servers |-> servers, lastServer |-> d.lastServer, cache |-> d.cache,
          failed |-> FALSE]

AccountHost(accountId) == <<accountId, ".sqljoy.com">>

\* getServerUrl(settings): discover.ts 108-126. fetch1 and fetch2 are what the
\* first and the forced discovery request do if they are made.
getServerUrl(d, fetch1, fetch2, now) ==
    LET first == IF d.settings.hasServers
                 THEN [servers |-> d.settings.servers, cache |-> d.cache, failed |-> FALSE]
                 ELSE maybeRefreshServers(d, FALSE, fetch1, now)
        d1 == [d EXCEPT !.cache = first.cache]
    IN IF Len(first.servers) # 0
       THEN LET w == wrapAround(d1, first.servers, maybeRefreshServers(d1, TRUE, fetch2, now))
            IN [threw |-> FALSE, host |-> At(w.servers, w.lastServer),
                lastServer |-> w.lastServer + 1, cache |-> w.cache,
                failed |-> first.failed \/ w.failed]
       ELSE IF d.settings.accountId = ""
       THEN [threw |-> TRUE, host |-> Host(""), lastServer |-> d.lastServer, cache |-> d1.cache,
             failed |-> first.failed]
       ELSE [threw |-> FALSE, host |-> AccountHost(d.settings.accountId),
             lastServer |-> d.lastServer, cache |-> d1.cache, failed |-> first.failed]

DiscoveryInit ==
    /\ ProgramInit
    /\ pure \in {[fn |-> "getServerUrl", settings |-> st, lastServer |-> 0,
                  cache |-> [servers |-> <<>>, error |-> <<>>, refreshedAt |-> 0],
                  calls |-> <<>>] : st \in DiscoverySettings}

\* connect() calls getServerUrl(this.settings): client.ts 338.
GetServerUrl(fetch1, fetch2, now) ==
    /\ pure.fn = "getServerUrl"
    /\ Len(pure.calls) < MaxConnects
    /\ \A i \in 1..Len(pure.calls) : pure.calls[i].now <= now
    /\ LET r == getServerUrl(pure, fetch1, fetch2, now)
       IN pure' = [pure EXCEPT !.lastServer = r.lastServer, !.cache = r.cache,
                               !.calls = Append(@, [now |-> now, threw |-> r.threw,
                                                    host |-> r.host, failed |-> r.failed])]
    /\ UNCHANGED <<cvars, rvars>>

DiscoveryNext ==
    \E fetch1 \in FetchOutcomes, fetch2 \in FetchOutcomes, now \in DiscoveryTimes :
        GetServerUrl(fetch1, fetch2, now)

DiscoverySpec == DiscoveryInit /\ [][DiscoveryNext]_vars

\* C27: with a literal server list configured, every connection attempt gets a
\* URL wss://<host> whose host is a member of that list, however many connects
\* and reconnects there are.
C27_LiteralListHostsOnly ==
    (pure.fn = "getServerUrl" /\ pure.settings.hasServers)
        => \A i \in 1..Len(pure.calls) :
              /\ ~pure.calls[i].threw
              /\ pure.calls[i].host \in {Host(h) : h \in Elements(pure.settings.servers)}

\* C28: with no literal server list and an account id, a call whose discovery
\* request fails returns wss://<accountId>.sqljoy.com.
C28_FailedDiscoveryFallsBack ==
    (pure.fn = "getServerUrl" /\ ~pure.settings.hasServers /\ pure.settings.accountId # "")
        => \A i \in 1..Len(pure.calls) :
              pure.calls[i].failed
                 => /\ ~pure.calls[i].threw
                    /\ pure.calls[i].host = AccountHost(pure.settings.accountId)


-----------------------------------------------------------------------------
(* Which WebSocket can still deliver events.                                *)

\* A WebSocket that can still fire close, error or message events is the one
\* held in this.sock, or this.sock is null. connect() (client.ts 331-347)
\* creates a WebSocket only while this.sock is null, and onError and onClose
\* (474-491) run in the task in which the browser closed the WebSocket.
OnlyCurrentTransportLive ==
    \A s \in Socks :
        readyState[s] \in {CONNECTING, OPEN, CLOSING} => (s = sock \/ sock = NoSock)

-----------------------------------------------------------------------------
(* drain() under the guarantees of the event loop and of the server.        *)

\* With an application that calls drain() with its default argument.
DrainAckNext ==
    \/ ClientNext
    \/ \E waitFor \in {WAIT_FOR_ACK} : DrainCall(waitFor)
    \/ DrainWake

\* The server answers a frame it received on WebSocket s, or the WebSocket is
\* lost or closed while a frame is unanswered.
AnswersOrLoses(s) ==
    /\ Answerable(s) # {}
    /\ \/ \E id \in 1..(MaxClock + MaxReq + 1), kind \in MsgKinds : OnMsg(s, id, kind)
       \/ SockCloseEvent(s)
       \/ SockLost(s)

\* The event loop runs promise jobs and timers (the wait(5) of drain() among
\* them), and every frame written to a transport is answered unless the
\* transport goes away.
DrainFairness ==
    /\ ClientFairness
    /\ WF_vars(DrainWake)
    /\ \A s \in Socks : WF_vars(AnswersOrLoses(s))

DrainFairSpec == Init /\ [][DrainAckNext]_vars /\ DrainFairness

DrainWaiting == drain.state = "waiting"
DrainReturned == drain.state = "returned"

\* C30: a drain(WAIT_FOR_ACK) that has started waiting eventually returns,
\* given that every frame written to the transport is eventually answered or
\* the transport is eventually lost.
C30_DrainEventuallyReturns == DrainWaiting ~> DrainReturned

-----------------------------------------------------------------------------
(* Terminal messages of dispatched tasks.                                   *)

\* The host reads the message type from bits 24 to 31 of the first field of a
\* slot, as an unsigned byte: the inverse of "msgType << 24" in outTask.
TopByte(word) == (word \div TwoTo24) % 256

IsTerminal(slot) == TopByte(slot[1]) \in {CallResult, CallError}

\* The new-task slots dispatched for request R so far.
Dispatched(R) == Cardinality({c \in 1..Len(ctxs) : ctxs[c].req = R})

\* The terminal messages for request R in the batch the host has not taken yet.
TerminalFor(R) ==
    Cardinality({i \in 1..OUTBOX_TAIL :
                    IsTerminal(OUTBOX[i]) /\ MaskRequestId(OUTBOX[i][1]) = R})

\* C31: a request with dispatched new-task slots gets at most one terminal
\* message (CallResult or CallError, whatever the kind) per dispatched slot:
\* with one slot, never both kinds and never two of one kind.
C31_OneTerminalMessagePerTask ==
    \A R \in RequestIds : Dispatched(R) >= 1 => TerminalFor(R) <= Dispatched(R)

-----------------------------------------------------------------------------
(* The timer ceiling.                                                       *)

MaxTimerLimit == 2

\* settings.max_timers of __init.
TimerLimits == 1..MaxTimerLimit

\* The runtime after configure(settings); refusedWith is the number of live
\* timers when setTimeout / setInterval last threw, -1 when it never did.
TimerInit ==
    /\ ProgramInit
    /\ pure \in {[fn |-> "timers", MAX_TIMERS |-> setMaxTimers(MAX_TIMERS, l),
                  refusedWith |-> -1] : l \in TimerLimits}

\* setTimeout / setInterval throws Error("too many timers"): part_018 83-85,
\* 111-113.
TimerRefused ==
    /\ pure.fn = "timers"
    /\ ACTIVE_TIMERS >= TimerLimit
    /\ pure' = [pure EXCEPT !.refusedWith = Cardinality(TIMERS)]
    /\ OutsideTick(0)
    /\ UNCHANGED <<SUBTASKS, SUBTASK_ID_SEQUENCE, ctxs, created, invoked, TIMERS,
                   ACTIVE_TIMERS, OUTBOX, OUTBOX_TAIL, cvars>>

TimerNext ==
    \/ \E kind \in {"timeout", "interval"} : SetTimer(kind)
    \/ TimerRefused
    \/ \E id \in TIMERS : ClearTimeout(id)
    \/ \E f \in {RESUME, REJECT}, R \in 0..MaxRequestId, id \in KnownIds :
          ResumeTask(f + R, id)
    \/ SetOutbox

TimerSpec == TimerInit /\ [][TimerNext]_vars

\* C32: at most MAX_TIMERS timers are live (created, not cleared and, if
\* one-shot, not fired), and setTimeout / setInterval throws "too many timers"
\* only when MAX_TIMERS timers are live.
C32_TimerCeiling ==
    pure.fn = "timers" =>
        /\ Cardinality(TIMERS) <= TimerLimit
        /\ pure.refusedWith # -1 => pure.refusedWith = TimerLimit

IsTimer(u) == created[u].kind \in {"timeout", "interval"}

\* C33: a Resume invokes the callback of a timer only if the timer has not
\* been cleared (clearTimeout / clearInterval) and, for a one-shot timer, has
\* not fired before.
C33_ClearedOrFiredTimerStaysSilent ==
    [][\A u \in Uids :
          IsTimer(u) /\ invoked'[u] # invoked[u] =>
              /\ created[u].id \in TIMERS
              /\ created[u].kind = "timeout" => invoked[u] = <<>>]_vars

-----------------------------------------------------------------------------
(* resumeTask on a subtask it must not touch.                               *)

\* Tasks that create promise subtasks and timers, and a host that resumes and
\* rejects them in any order, with any request id.
ResumeNext ==
    \/ \E R \in RequestIds, how \in {"throws", "returns", "promise"} : RunTask(R, how)
    \/ \E c \in 1..MaxTasks, ok \in BOOLEAN : TaskSettle(c, ok)
    \/ \E c \in 1..MaxTasks : NewPromiseSubtask(c)
    \/ \E kind \in {"timeout", "interval"} : SetTimer(kind)
    \/ \E id \in TIMERS : ClearTimeout(id)
    \/ \E f \in {RESUME, REJECT}, R \in 0..MaxRequestId, id \in KnownIds :
          ResumeTask(f + R, id)
    \/ SetOutbox

ResumeSpec == Init /\ [][ResumeNext]_vars

\* The subtask id is not in the registry, or the request id R (24 bits) is not
\* the id of the context recorded with the subtask.
StaleResume(R, id) ==
    \/ ~HasSubtask(id)
    \/ \E c \in {created[UidOf(id)].ctx} : c # 0 /\ idOf(ctxs[c]) # R

-----------------------------------------------------------------------------
(* outTask on its own.                                                      *)

\* Message types at and beyond both ends of the byte, and on both sides of the
\* sign bit of the packed word.
MsgTypeInputs == {-1, 0, 127, 128, 255, 256}

\* Request ids below, at and beyond 24 bits, and a negative one.
RequestIdInputs == {0, 1, REQUEST_ID_MASK, TwoTo24, TwoTo24 + 1, -1, SUBTASK_ID_MASK}

NoOutTask == [fn |-> "outTask", called |-> FALSE, msgType |-> 0, requestId |-> 0,
              threw |-> FALSE, out |-> <<>>, tail |-> 0]

OutTaskInit == ProgramInit /\ pure = NoOutTask

\* outTask(msgType, requestId, 0, ...): part_018 41-66; pure keeps the
\* arguments and the outbox as the call found it.
OutTaskCall(msgType, requestId) ==
    /\ pure.fn = "outTask"
    /\ OUTBOX_TAIL < MaxOutbox
    /\ IF msgType < 0 \/ msgType > 255
       THEN UNCHANGED <<OUTBOX, OUTBOX_TAIL>>
       ELSE Emit(outTask(msgType, requestId, 0))
    /\ pure' = [fn |-> "outTask", called |-> TRUE, msgType |-> msgType,
                requestId |-> requestId, threw |-> (msgType < 0 \/ msgType > 255),
                out |-> OUTBOX, tail |-> OUTBOX_TAIL]
    /\ UNCHANGED <<SUBTASKS, SUBTASK_ID_SEQUENCE, ctxs, created, invoked, TIMERS,
                   ACTIVE_TIMERS, cancelled, NOW, tick, ticks, cvars>>

\* setOutbox(results, length) with the array the host handed in before and
\* the number of slots it keeps: part_018 32-35.
SetOutboxAt(length) ==
    /\ pure.fn = "outTask"
    /\ pure.called
    /\ length <= Len(OUTBOX)
    /\ OUTBOX_TAIL' = length
    /\ pure' = [pure EXCEPT !.called = FALSE]
    /\ UNCHANGED <<OUTBOX, SUBTASKS, SUBTASK_ID_SEQUENCE, ctxs, created, invoked, TIMERS,
                   ACTIVE_TIMERS, cancelled, NOW, tick, ticks, cvars>>

OutTaskNext ==
    \/ \E msgType \in MsgTypeInputs, requestId \in RequestIdInputs :
          OutTaskCall(msgType, requestId)
    \/ \E length \in 0..MaxOutbox : SetOutboxAt(length)

OutTaskSpec == OutTaskInit /\ [][OutTaskNext]_vars

-----------------------------------------------------------------------------
(* Request ids as offsets, and HELLO on every transport.                    *)

\* C36: a request id is at most the milliseconds elapsed since the connection
\* opened plus the number of ids allocated so far, the first request issued
\* before the socket has opened included.  The client is constructed when the
\* clock reads MinClock at the earliest, so at the reading now no connection
\* has been open for more than now - MinClock milliseconds; every entry of
\* reqs (HELLO included) took one id.
C36_IdIsOffsetSinceConnect ==
    [][\A now \in Clocks :
          Issue(now) => lastId' <= (now - MinClock) + Len(reqs')]_vars

\* C37: on every transport, one opened by a reconnect after the previous one
\* was lost included, a HELLO frame is written before any query or call frame.
C37_HelloOnEveryTransport ==
    \A s \in Socks :
        \A k \in 1..Len(FramesOn(s)) :
            FramesOn(s)[k].cmd # HELLO =>
                \E h \in 1..(k - 1) : FramesOn(s)[h].cmd = HELLO

-----------------------------------------------------------------------------
(* executeQuery on a query the compiler could not resolve.                  *)

\* The SQL objects handed to executeQuery: query is the fingerprint.
InvalidQuery == [query |-> "invalid"]
QueryObjects == {InvalidQuery, [query |-> "q1"], [query |-> ""]}

\* A faulty executeQuery / prepareQuery without the test of the fingerprint.
isUncompiled_never(query) == FALSE
\* query.query === "invalid": client.ts 211, part_003 157.
isUncompiled(query) == query.query = "invalid"

QueryInit == ProgramInit /\ pure = [fn |-> "executeQuery", threw |-> FALSE]

\* SQLJoy.executeQuery(query) with parameters that pass validation: client.ts
\* 210-231. It throws, or it reaches sendCommand.
ClientExecuteQuery(now, query) ==
    /\ pure.fn = "executeQuery"
    /\ IF isUncompiled(query)
       THEN /\ pure' = [pure EXCEPT !.threw = TRUE]
            /\ UNCHANGED <<cvars, rvars>>
       ELSE Issue(now)

\* Context.executeQuery(query) of the context c: prepareQuery, then
\* newPromiseSubtask and outTask(Query, ...), index.ts 59-65.
ContextExecuteQuery(c, query) ==
    /\ pure.fn = "executeQuery"
    /\ c \in 1..Len(ctxs)
    /\ IF isUncompiled(query)
       THEN /\ pure' = [pure EXCEPT !.threw = TRUE]
            /\ UNCHANGED <<cvars, rvars>>
       ELSE NewPromiseSubtask(c)

\* A client whose connection comes up and a runtime whose tasks run queries.
QueryNext ==
    \/ \E now \in Instants, query \in QueryObjects : ClientExecuteQuery(now, query)
    \/ \E now \in Instants : Cont(now)
    \/ \E r \in 1..(MaxReq + 1), now \in Instants : PollWake(r, now)
    \/ \E b \in {0} : DoSend(b)
    \/ DiscoveryOk
    \/ \E s \in Socks : SockOpen(s)
    \/ \E R \in RequestIds : RunTask(R, "promise")
    \/ \E c \in 1..MaxTasks, query \in QueryObjects : ContextExecuteQuery(c, query)
    \/ SetOutbox

QuerySpec == QueryInit /\ [][QueryNext]_vars

\* C38: executeQuery on a query whose fingerprint is "invalid", on the client
\* or in a task, allocates no request id and no subtask id, creates no entry
\* of the request table or of the subtask registry, and emits no frame and no
\* outbound message.
C38_InvalidQueryChangesNothing ==
    [][(\/ \E now \in Instants : ClientExecuteQuery(now, InvalidQuery)
        \/ \E c \in 1..MaxTasks : ContextExecuteQuery(c, InvalidQuery))
       => UNCHANGED <<lastId, queries, reqs, microtasks, frames, SUBTASK_ID_SEQUENCE,
                      SUBTASKS, created, OUTBOX, OUTBOX_TAIL>>]_vars

\* An invalid query was refused by a client and a runtime that do execute
\* the valid ones.
C38_Witness ==
    /\ pure.fn = "executeQuery" /\ pure.threw
    /\ frames # <<>>
    /\ created # <<>>

-----------------------------------------------------------------------------
(* Termination of mergeParams.                                              *)

\* C40: mergeParams(params, other) returns for all finite parameter maps, also
\* when a key of other is a key of params and params has no suffixed variant
\* of it: no call ends in the renaming loop.
C40_MergeParamsTerminates ==
    pure.fn = "mergeParams" /\ pure.state # "called" => pure.state = "returned"

-----------------------------------------------------------------------------
(* sql.merge of the server runtime.                                         *)

MaxTextLen == 2      \* pieces of the text of the parent query
MaxFragments == 2    \* fragments passed to sql.merge

\* The text of a query, in pieces: SQL without placeholders, the fragment
\* placeholder "%{}", or "$" followed by digits.
Lit == [t |-> "lit", digits |-> <<>>]
Frag == [t |-> "frag", digits |-> <<>>]
Var(digits) == [t |-> "var", digits |-> digits]
ParentPieces == {Lit, Frag, Var(<<1>>), Var(<<2>>), Var(<<1, 0>>)}
FragmentPieces == {Lit, Var(<<1>>), Var(<<1, 0>>)}
ParentTexts == UNION {[1..n -> ParentPieces] : n \in 1..MaxTextLen}

\* The own keys of a parameter object, in the order "for in" visits them.
ParamLists == {<<>>, <<<<Key("x", 0), "b">>>>, <<<<Key("y", 0), "a">>>>}
AsMap(list) == [k \in {list[i][1] : i \in 1..Len(list)} |->
                  (CHOOSE e \in {list[i] : i \in 1..Len(list)} : e[1] = k)[2]]

ParentQueries ==
    {[query |-> q, text |-> tx, params |-> AsMap(ps), fragments |-> <<>>] :
        q \in {"", "p"}, tx \in ParentTexts, ps \in {<<>>, <<<<Key("x", 0), "a">>>>}}
FragmentQueries ==
    {[query |-> q, text |-> <<pc>>, params |-> ps] :
        q \in {"", "f"}, pc \in FragmentPieces, ps \in ParamLists}
FragmentLists == UNION {[1..n -> FragmentQueries] : n \in 0..MaxFragments}

\* isDynamicSQL(obj): "isSQL(obj) && !obj.query", dynamic_sql.ts 4-6.
isDynamicSQL(obj) == obj.query = ""

\* sql.merge of sql.ts (part_003 112-121), from the i-th fragment on: the
\* fragment is pushed and query.params becomes what mergeParams returns.
RECURSIVE mergeFragments(_, _, _)
mergeFragments(st, fragments, i) ==
    IF i > Len(fragments) \/ st.state # "returned" THEN st
    ELSE LET r == mergeParams(st.query.params, fragments[i].params)
         IN mergeFragments(
                [state |-> r.state,
                 query |-> [st.query EXCEPT !.fragments = Append(@, fragments[i]),
                                            !.params = r.result]],
                fragments, i + 1)

\* "const mergeCompiled = sql.merge" (dynamic_sql.ts 48) reads the global sql
\* after dynamic_sql.ts 35 has bound it to a new function, which has no merge
\* property: the merge of sql.ts stays on the function sql.ts had bound.
mergeCompiled == "undefined"

\* renumberVars(query) of dynamic_sql.ts 104-107, from piece k on, i being the
\* next number (below ten here): the pattern \$(\d+?) takes the "$" and ONE
\* digit, so the other digits stay behind the new number.
RECURSIVE renumberFrom(_, _, _)
renumberFrom(text, k, i) ==
    IF k > Len(text) THEN <<>>
    ELSE IF text[k].t = "var"
         THEN <<Var(<<i>> \o Tail(text[k].digits))>> \o renumberFrom(text, k + 1, i + 1)
         ELSE <<text[k]>> \o renumberFrom(text, k + 1, i)

\* The callback of text.replace(/%{}/g, ...) in replaceFragments, from piece k
\* on with st.i fragments used: dynamic_sql.ts 85-91.
RECURSIVE replaceFrom(_, _, _, _)
replaceFrom(st, text, fragments, k) ==
    IF k > Len(text) \/ st.state # "returned" THEN st
    ELSE IF text[k].t # "frag"
    THEN replaceFrom([st EXCEPT !.text = Append(@, text[k])], text, fragments, k + 1)
    ELSE IF st.i >= Len(fragments)
    THEN [st EXCEPT !.state = "threw"]
    ELSE LET r == mergeParams(st.params, fragments[st.i + 1].params)
         IN replaceFrom([state |-> r.state, i |-> st.i + 1, params |-> r.result,
                         text |-> st.text \o fragments[st.i + 1].text],
                        text, fragments, k + 1)

\* replaceFragments(query, fragments): dynamic_sql.ts 78-102.  query.fragments
\* already holds the fragments that the merge of sql.ts pushed.
replaceFragments(query, fragments) ==
    LET all == query.fragments \o fragments
        st == replaceFrom([state |-> "returned", i |-> 0, params |-> query.params,
                           text |-> <<>>], query.text, all, 1)
    IN  IF st.state # "returned" THEN [state |-> st.state, query |-> query]
        ELSE IF st.i # Len(all) THEN [state |-> "threw", query |-> query]
        ELSE [state |-> "returned",
              query |-> [query |-> "", text |-> renumberFrom(st.text, 1, 1),
                         params |-> st.params, fragments |-> <<>>]]

\* sql.merge(query, ...fragments) of the server runtime: dynamic_sql.ts 65-72.
\* Calling a mergeCompiled that is undefined throws a TypeError.
sqlMerge(query, fragments) ==
    IF mergeCompiled = "undefined" THEN [state |-> "threw", query |-> query]
    ELSE LET m == mergeFragments([state |-> "returned", query |-> query], fragments, 1)
         IN IF m.state # "returned" THEN m
            ELSE IF \/ isDynamicSQL(m.query)
                    \/ \E j \in 1..Len(fragments) : isDynamicSQL(fragments[j])
            THEN replaceFragments(m.query, fragments)
            ELSE m

SqlMergeInit ==
    /\ ProgramInit
    /\ pure \in {[fn |-> "sql.merge", query |-> q, fragments |-> fs, state |-> "called",
                  result |-> q] : q \in ParentQueries, fs \in FragmentLists}

SqlMergeCall ==
    /\ pure.fn = "sql.merge"
    /\ pure.state = "called"
    /\ \E r \in {sqlMerge(pure.query, pure.fragments)} :
          pure' = [pure EXCEPT !.state = r.state, !.result = r.query]
    /\ UNCHANGED <<cvars, rvars>>

SqlMergeSpec == SqlMergeInit /\ [][SqlMergeCall]_vars

\* The text with its i-th "%{}" replaced by the text of the i-th fragment.
RECURSIVE Flattened(_, _, _, _)
Flattened(text, fragments, k, i) ==
    IF k > Len(text) THEN <<>>
    ELSE IF text[k].t = "frag"
         THEN fragments[i].text \o Flattened(text, fragments, k + 1, i + 1)
         ELSE <<text[k]>> \o Flattened(text, fragments, k + 1, i)

\* The text with its placeholders numbered 1, 2, 3, ... from the left.
RECURSIVE Numbered(_, _, _)
Numbered(text, k, i) ==
    IF k > Len(text) THEN <<>>
    ELSE IF text[k].t = "var"
         THEN <<Var(<<i>>)>> \o Numbered(text, k + 1, i + 1)
         ELSE <<text[k]>> \o Numbered(text, k + 1, i)

Placeholders(text) == Cardinality({k \in 1..Len(text) : text[k].t = "frag"})

\* C39: with exactly as many "%{}" in the parent text as fragments, the
\* server's sql.merge returns, when the parent or a fragment is dynamic, a
\* query with an empty fingerprint whose text is the parent's with the i-th
\* placeholder replaced by the i-th fragment's text and the $k renumbered 1,
\* 2, 3, ... from the left; when nothing is dynamic, the parent's fingerprint.
C39_DynamicMergeFlattens ==
    (/\ pure.fn = "sql.merge" /\ pure.state # "called"
     /\ Placeholders(pure.query.text) = Len(pure.fragments))
    => /\ pure.state = "returned"
       /\ IF \/ isDynamicSQL(pure.query)
             \/ \E j \in 1..Len(pure.fragments) : isDynamicSQL(pure.fragments[j])
          THEN /\ pure.result.query = ""
               /\ pure.result.text =
                    Numbered(Flattened(pure.query.text, pure.fragments, 1, 1), 1, 1)
          ELSE pure.result.query = pure.query.query

============================================================================
